---- MODULE Spec2Model ----
(***************************************************************************)
(* Verification model of the real-time core of rusci-render (crate         *)
(* osci-synth): the frame channel between FrameProducer and ShapeSound,    *)
(* the ShapeRenderer arc-length cursor, ShapeVoice and the Synthesizer.    *)
(*                                                                         *)
(* Numbers.  The source computes in f32/f64.  The model computes in        *)
(* integers: coordinates and arc lengths are integer multiples of the      *)
(* length-increment floor (MIN_LENGTH_INCREMENT is one unit), envelope     *)
(* time is counted in audio samples (one unit is 1/sample_rate seconds),   *)
(* the pitch-wheel factor is held as its numerator over 65536, and every   *)
(* division of the source is an integer division.  Shapes are Line and     *)
(* PointShape; envelopes have Linear curves.                               *)
(***************************************************************************)
EXTENDS Integers, Sequences, FiniteSets, TLC

VARIABLES
    \* crossbeam bounded channel created by ShapeSound::new (sound.rs:21)
    chan,            \* frames in flight, oldest first
    rxAlive,         \* the ShapeSound (the only Receiver) has not been dropped
    \* ShapeSound
    current_frame,   \* ShapeSound.current_frame (a sequence of shapes)
    frame_length,    \* ShapeSound.frame_length
    \* FrameProducer
    running,         \* FrameProducer.running (Arc<AtomicBool>)
    thread,          \* FrameProducer.thread: "some" | "none" (JoinHandle taken)
    source,          \* the FrameSource moved into the thread
    prodPc,          \* position of the producer thread: check | next | send | done
    pending,         \* the frame the thread is about to send
    exitReason,      \* why the thread left its loop
    stopPc,          \* position of the control thread in stop(): idle | joining | returned
    \* a ShapeRenderer driven step by step (renderer.rs)
    rend,            \* the ShapeRenderer: shapes, shapes_length, current_shape,
                     \* shape_drawn, frame_drawn
    rlen,            \* the local `length` of increment_with
    rpc,             \* position inside increment_with: idle | loop
    rperiod,         \* sample_rate / frequency of that renderer, in samples
    rsince,          \* history: next_vector calls since the frame cursor was at 0
    rlast,           \* history: samples the last completed traversal took
    \* Synthesizer
    voices,          \* Synthesizer.voices: slot -> ShapeVoice
    adsr,            \* Synthesizer.adsr
    midi_enabled,    \* Synthesizer.midi_enabled
    sample_rate,     \* Synthesizer.sample_rate (and every voice's)
    out,             \* the host's output buffers after the last render_next_block
    hung,            \* the audio thread is inside a loop that never ends
    \* an Env looked up from outside (envelope.rs)
    lookupEnv,       \* the Env
    lookupTime,      \* the time of the last lookup
    lookupValue,     \* what the last lookup returned
    \* a Point expression evaluated from outside (point.rs)
    ptIn,            \* the left operand <<x, y, z, r, g, b>>
    ptRhs,           \* the right operand: a Point, a scalar, or <<>> for a unary operator
    ptOut,           \* the result
    \* an LfoState and an EffectParameter animated on their own (lfo.rs, parameter.rs)
    lfoPhase,        \* LfoState.phase, in steps of 1 / PhaseSteps
    lfoRate,         \* LfoState.rate / sample_rate, in the same steps
    paramPhase,      \* EffectParameter.phase
    paramRate,       \* EffectParameter.lfo_rate / sample_rate
    \* history
    lastWheel,       \* the value of the most recent PitchWheel event, the centre if none
    nextId,          \* sequence number (mod SeqMod) the next produced frame gets
    lastRecv,        \* sequence number of the frame update_frame received last
    outPre,          \* the output buffers as the host passed them to the last call
    numSamples,      \* num_samples of the last render_next_block
    panicked,        \* a render_next_block panicked
    rendered,        \* per slot: the points the voice mixed in during the last call
    events,          \* number of events the synthesizer has handled
    \* effects
    heap,            \* address -> VoiceEffect object, or NoObject when free
    effect_template, \* the plugin's effect_template: a sequence of addresses
    effects,         \* per slot: ShapeVoice.effects, a sequence of addresses
    \* the plugin's audio callback and its editor (osci-plugin/src/lib.rs)
    audioPc,         \* position of the audio thread inside process()
    editorPc,        \* position of the editor thread inside its frame closure
    command_rx,      \* number of UiCommands queued in the command channel
    effects_changed, \* the local effects_changed of process()
    effect_snapshots,\* holder of the effect_snapshots mutex: free | audio | editor
    vis_buffer,      \* holder of the vis_buffer mutex: free | audio | editor
    \* the command channel between the editor and process() (osci-plugin/src/lib.rs)
    command_tx,      \* which channel the plugin's command_tx and command_rx belong to
    command_queue,   \* the UiCommands queued in the plugin's channel, oldest first
    editor_tx,       \* <<channel of the editor's sender>>, empty before editor()
    accepted,        \* history: the commands the editor's sender accepted, in send order
    received,        \* history: the commands the drain loop of process() received
    op               \* the last operation performed and its arguments

soundVars == <<chan, rxAlive, current_frame, frame_length, lastRecv>>

prodVars == <<running, thread, source, prodPc, pending, exitReason, stopPc, nextId>>

rendVars == <<rend, rlen, rpc, rperiod, rsince, rlast>>

synthVars == <<voices, adsr, midi_enabled, sample_rate, out, hung, panicked, outPre,
               numSamples,
               rendered, events>>

fxVars == <<heap, effect_template, effects>>

plugVars == <<audioPc, editorPc, command_rx, effects_changed, effect_snapshots, vis_buffer>>

envVars == <<lookupEnv, lookupTime, lookupValue>>

pointVars == <<ptIn, ptRhs, ptOut>>

lfoVars == <<lfoPhase, lfoRate, paramPhase, paramRate>>

wheelVars == <<lastWheel>>

chanVars == <<command_tx, command_queue, editor_tx, accepted, received>>

vars == <<soundVars, prodVars, rendVars, synthVars, fxVars, plugVars, envVars, pointVars,
          lfoVars, wheelVars, chanVars, op>>

-----------------------------------------------------------------------------
(* Bounds *)

\* capacity given to ShapeSound::new (the plugin and the tests pass 4)
Capacity == 2

\* sequence numbers of produced frames are counted modulo SeqMod
SeqMod == Capacity + 3

\* largest length increment handed to the step-by-step renderer, in floor units
MaxIncrement == 7

\* the step-by-step renderer takes no further sample once frame_drawn passes this
MaxDrawn == 8

\* voice slots of the Synthesizer (Synthesizer::new(num_voices, ..))
NumVoices == 2

\* length of the host's output buffers; num_samples ranges over 0..BufLen
BufLen == 2

\* events handled by the synthesizer in one run
MaxEvents == 5

\* largest sample_rate / frequency of the self-driven renderer, in samples
MaxPeriod == 4

\* largest level and largest stage time of a looked-up Env
MaxLevel == 2

\* largest time an Env is looked up at
MaxTime == 6

\* note-ons and frames sent while the host renders without end
HostEvents == 3

\* largest channel value of a Point operand
MaxChannel == 2

\* commands the command channel holds (the plugin creates it with 256)
MaxQueued == 2

\* longest effect template (the plugin has no limit)
MaxChain == 2

\* calls of initialize() the host makes
MaxInits == 2

\* commands the editor's sender accepts
MaxSends == 3

\* samples in one LFO cycle: sample_rate / lfo_rate
PhaseSteps == 3

\* the integer standing for the parameter value 1.0
ValueOne == 4

-----------------------------------------------------------------------------
(* Program constants *)

\* EFFECT_SNAP_THRESHOLD, in the parameter units of the model
SnapThreshold == 2

\* 0x12345678, the seed of a parameter's noise generator, as <<high, low>> u16
RngSeed == <<4660, 22136>>

\* MIN_LENGTH_INCREMENT, the unit of length of the model
MinLengthIncrement == 1

\* start_note gives up loading a frame after this many update_frame calls
MaxTries == 50

\* Synthesizer.default_frequency
DefaultFrequency == 440

\* denominator of the pitch-wheel factor 1 + (value - 8192) / 65536
PitchDenom == 65536

\* pitch-wheel centre
PitchCentre == 8192

\* F applied to the value of x, x computed once: a `let` binding of the source
With(x, F(_)) == CHOOSE r \in {F(v) : v \in {x}} : TRUE

\* the last operation and its arguments
Op(name, arg) == [name |-> name, arg |-> arg]

-----------------------------------------------------------------------------
(* Shapes (osci-core/src/shape.rs) *)

\* largest r with r * r <= n
ISqrt(n) == CHOOSE r \in 0..n : r * r <= n /\ (r + 1) * (r + 1) > n

Line(p1, p2) == [kind |-> "Line", p1 |-> p1, p2 |-> p2]

PointShape(p) == [kind |-> "Point", p1 |-> p, p2 |-> p]

compute_length(p1, p2) ==
    LET dx == p2[1] - p1[1]
        dy == p2[2] - p1[2]
        dz == p2[3] - p1[3]
    IN  ISqrt(dx * dx + dy * dy + dz * dz)

length(shape) == IF shape.kind = "Line" THEN compute_length(shape.p1, shape.p2) ELSE 0

RECURSIVE total_length(_)
total_length(shapes) ==
    IF shapes = <<>> THEN 0 ELSE length(Head(shapes)) + total_length(Tail(shapes))

\* Shape::next_vector at drawing progress num / den
shape_next_vector(shape, num, den) ==
    IF shape.kind = "Line"
    THEN [i \in 1..3 |-> shape.p1[i] + ((shape.p2[i] - shape.p1[i]) * num) \div den]
    ELSE shape.p1

\* the horizontal line of the tests, scaled: from (-1,0,0) to (1,0,0)
FrameLine == << Line(<<-1, 0, 0>>, <<1, 0, 0>>) >>

\* a frame made of PointShapes only: total length 0
FramePoint == << PointShape(<<1, 1, 0>>), PointShape(<<-1, -1, 0>>) >>

\* a point followed by a vertical line of length 3
FrameMixed == << PointShape(<<0, 0, 0>>), Line(<<0, 0, 0>>, <<0, 3, 0>>) >>

-----------------------------------------------------------------------------
(* ShapeRenderer (renderer.rs) *)

\* ShapeRenderer::new
NewRenderer ==
    [shapes |-> <<>>, shapes_length |-> 0, current_shape |-> 0,
     shape_drawn |-> 0, frame_drawn |-> 0]

\* ShapeRenderer::set_shapes
set_shapes(r, shapes) ==
    [shapes |-> shapes, shapes_length |-> total_length(shapes), current_shape |-> 0,
     shape_drawn |-> 0, frame_drawn |-> 0]

\* a frame_complete that does not look at frame_drawn
frame_complete_any_time(r) == r.shapes_length > 0

\* ShapeRenderer::frame_complete
frame_complete(r) == r.frame_drawn >= r.shapes_length /\ r.shapes_length > 0

\* ShapeRenderer::reset_frame_drawn
reset_frame_drawn(r) ==
    [r EXCEPT !.frame_drawn = IF r.shapes_length > 0 THEN @ - r.shapes_length ELSE @,
              !.current_shape = 0]

\* length of the current shape, 0 when the index is past the end
current_length(r) ==
    IF r.current_shape < Len(r.shapes) THEN length(r.shapes[r.current_shape + 1]) ELSE 0

\* the point next_vector_with_increment samples before it advances
current_point(r) ==
    IF r.shapes = <<>> \/ r.current_shape >= Len(r.shapes) THEN <<0, 0, 1>>
    ELSE LET shape == r.shapes[r.current_shape + 1]
             len == length(shape)
         IN  IF len = 0 THEN shape_next_vector(shape, 1, 1)
             ELSE shape_next_vector(shape, r.shape_drawn, len)

\* increment_with up to its loop: both counters advance by the increment
increment_begin(r, length_increment) ==
    [r EXCEPT !.frame_drawn = @ + length_increment,
              !.shape_drawn = @ + length_increment]

\* while self.shape_drawn > length && !self.shapes.is_empty()
skip_cond(r, len) == r.shape_drawn > len /\ r.shapes # <<>>

\* the index after current_shape, wrapping to 0 past the last shape
next_shape(r) == IF r.current_shape + 1 >= Len(r.shapes) THEN 0 ELSE r.current_shape + 1

\* one iteration of the skip loop: the renderer afterwards
skip_step(r, len) ==
    [r EXCEPT !.shape_drawn = @ - len, !.current_shape = next_shape(r)]

\* one iteration of the skip loop: the local `length` afterwards
skip_length(r) == length(r.shapes[next_shape(r) + 1])

\* The skip loop run to its end.  The loop is deterministic, so it never ends
\* exactly when it comes back to a state it has been in: hang is then TRUE.
RECURSIVE skip_run(_, _, _)
skip_run(r, len, seen) ==
    IF ~skip_cond(r, len) THEN [hang |-> FALSE, r |-> r]
    ELSE IF <<r, len>> \in seen THEN [hang |-> TRUE, r |-> r]
    ELSE With(<<skip_step(r, len), skip_length(r), seen \cup {<<r, len>>}>>,
              LAMBDA nx : skip_run(nx[1], nx[2], nx[3]))

\* ShapeRenderer::increment_with as a whole
increment_with(r, length_increment) ==
    IF r.shapes = <<>> THEN [hang |-> FALSE, r |-> r]
    ELSE skip_run(increment_begin(r, length_increment), current_length(r), {})

\* ShapeRenderer::next_vector_with_increment as a whole
next_vector_with_increment(r, length_increment) ==
    With(increment_with(r, length_increment),
         LAMBDA res : [hang |-> res.hang, r |-> res.r, point |-> current_point(r)])

\* two lines of lengths 1 and 3
FrameTwoLines == << Line(<<0, 0, 0>>, <<1, 0, 0>>), Line(<<1, 0, 0>>, <<1, 3, 0>>) >>

\* the natural increment of increment_shape_drawing:
\* shapes_length / (sample_rate / frequency)
natural_increment(r, period) == r.shapes_length \div period

\* a next_vector that never takes frame_drawn back
next_vector_no_wrap(r, period) ==
    IF r.shapes = <<>> THEN [hang |-> FALSE, r |-> r, point |-> <<0, 0, 1>>]
    ELSE With(increment_with(r, natural_increment(r, period)), LAMBDA res :
              [hang |-> res.hang, r |-> res.r,
               point |-> [current_point(r) EXCEPT ![3] = 1]])

\* ShapeRenderer::next_vector as a whole
next_vector(r, period) ==
    IF r.shapes = <<>> THEN [hang |-> FALSE, r |-> r, point |-> <<0, 0, 1>>]
    ELSE With(increment_with(r, natural_increment(r, period)), LAMBDA res :
              [hang |-> res.hang,
               r |-> IF res.r.frame_drawn >= res.r.shapes_length
                     THEN [res.r EXCEPT !.frame_drawn = @ - res.r.shapes_length,
                                        !.current_shape = 0]
                     ELSE res.r,
               point |-> [current_point(r) EXCEPT ![3] = 1]])

\* frames and periods of the self-driven renderer
SDFrames == {FrameLine, FramePoint, FrameMixed, FrameTwoLines}

Periods == 1..MaxPeriod

\* set_shapes(frame) on the self-driven renderer
SDSetShapes ==
    /\ rpc = "idle"
    /\ \E f \in SDFrames : rend' = set_shapes(rend, f)
    /\ rsince' = 0
    /\ op' = Op("set_shapes", <<>>)
    /\ UNCHANGED <<chanVars, wheelVars, lfoVars, pointVars, fxVars, plugVars, envVars, rlen, rpc, rperiod, rlast, soundVars,
                   prodVars,
                   synthVars>>

\* set_frequency / set_sample_rate: a traversal under way is no longer timed
SDSetFrequency ==
    /\ rpc = "idle"
    /\ \E p \in Periods : rperiod' = p
    /\ rsince' = IF rend.frame_drawn = 0 THEN 0 ELSE -1
    /\ op' = Op("set_frequency", <<>>)
    /\ UNCHANGED <<chanVars, wheelVars, lfoVars, pointVars, fxVars, plugVars, envVars, rend, rlen, rpc, rlast, soundVars,
                   prodVars,
                   synthVars>>

\* next_vector(), for increments that are whole numbers of length units
SDNextVector ==
    /\ rpc = "idle"
    /\ rend.shapes_length % rperiod = 0
    /\ \E res \in {next_vector(rend, rperiod)} :
         /\ ~res.hang
         /\ rend' = res.r
         /\ IF rend.shapes = <<>> \/ rend.shapes_length = 0
            THEN UNCHANGED <<rsince, rlast>>
            ELSE IF res.r.frame_drawn
                        < rend.frame_drawn + natural_increment(rend, rperiod)
            THEN /\ rlast' = IF rsince >= 0 THEN rsince + 1 ELSE rlast
                 /\ rsince' = IF res.r.frame_drawn = 0 THEN 0 ELSE -1
            ELSE /\ rsince' = IF rsince >= 0 THEN rsince + 1 ELSE rsince
                 /\ UNCHANGED rlast
    /\ op' = Op("next_vector", <<>>)
    /\ UNCHANGED <<chanVars, wheelVars, lfoVars, pointVars, fxVars, plugVars, envVars, rlen, rpc, rperiod, soundVars,
                   prodVars, synthVars>>

\* frames handed to the renderer
RFrames == {<<>>, FrameLine, FramePoint, FrameMixed}

\* set_shapes(frame)
RSetShapes ==
    /\ rpc = "idle"
    /\ \E f \in RFrames : rend' = set_shapes(rend, f)
    /\ op' = Op("set_shapes", <<>>)
    /\ UNCHANGED <<chanVars, wheelVars, lfoVars, pointVars, fxVars, plugVars, envVars, rperiod, rsince, rlast, rlen, rpc,
                   soundVars, prodVars, synthVars>>

\* next_vector_with_increment(length_increment) up to the skip loop
RNextVectorWithIncrement ==
    /\ rpc = "idle"
    /\ rend.frame_drawn <= MaxDrawn
    /\ \E inc \in MinLengthIncrement..MaxIncrement :
         IF rend.shapes = <<>>
         THEN UNCHANGED <<rend, rlen, rpc>>
         ELSE /\ rlen' = current_length(rend)
              /\ rend' = increment_begin(rend, inc)
              /\ rpc' = "loop"
    /\ op' = Op("next_vector_with_increment", <<>>)
    /\ UNCHANGED <<chanVars, wheelVars, lfoVars, pointVars, fxVars, plugVars, envVars, rperiod, rsince, rlast, soundVars,
                   prodVars, synthVars>>

\* one iteration of the skip loop
RSkipStep ==
    /\ rpc = "loop"
    /\ skip_cond(rend, rlen)
    /\ rend' = skip_step(rend, rlen)
    /\ rlen' = skip_length(rend)
    /\ op' = Op("skip_step", <<>>)
    /\ UNCHANGED <<chanVars, wheelVars, lfoVars, pointVars, fxVars, plugVars, envVars, rperiod, rsince, rlast, rpc,
                   soundVars, prodVars, synthVars>>

\* the loop condition is false: increment_with returns
RSkipExit ==
    /\ rpc = "loop"
    /\ ~skip_cond(rend, rlen)
    /\ rpc' = "idle"
    /\ op' = Op("skip_exit", <<>>)
    /\ UNCHANGED <<chanVars, wheelVars, lfoVars, pointVars, fxVars, plugVars, envVars, rperiod, rsince, rlast, rend, rlen,
                   soundVars, prodVars, synthVars>>

\* the voice's reaction to frame_complete(): set_shapes, then reset_frame_drawn
RFrameSwap ==
    /\ rpc = "idle"
    /\ frame_complete(rend)
    /\ \E f \in RFrames : rend' = reset_frame_drawn(set_shapes(rend, f))
    /\ op' = Op("frame_swap", <<>>)
    /\ UNCHANGED <<chanVars, wheelVars, lfoVars, pointVars, fxVars, plugVars, envVars, rperiod, rsince, rlast, rlen, rpc,
                   soundVars, prodVars, synthVars>>

-----------------------------------------------------------------------------
(* ShapeSound (sound.rs) *)

\* the ShapeSound as one value
Sound ==
    [chan |-> chan, current_frame |-> current_frame, frame_length |-> frame_length,
     lastRecv |-> lastRecv]

SetSound(snd) ==
    /\ chan' = snd.chan
    /\ current_frame' = snd.current_frame
    /\ frame_length' = snd.frame_length
    /\ lastRecv' = snd.lastRecv

\* update_frame that keeps the cached length of the frame it replaces
update_frame_stale_length(snd) ==
    IF snd.chan # <<>>
    THEN [chan |-> Tail(snd.chan), current_frame |-> Head(snd.chan).shapes,
          frame_length |-> snd.frame_length, lastRecv |-> Head(snd.chan).id]
    ELSE snd

\* update_frame that takes the newest pending frame instead of the oldest
update_frame_newest(snd) ==
    IF snd.chan # <<>>
    THEN LET f == snd.chan[Len(snd.chan)]
         IN  [chan |-> SubSeq(snd.chan, 1, Len(snd.chan) - 1),
              current_frame |-> f.shapes,
              frame_length |-> total_length(f.shapes), lastRecv |-> f.id]
    ELSE snd

\* ShapeSound::update_frame: try_recv never waits
update_frame(snd) ==
    IF snd.chan # <<>>
    THEN [chan |-> Tail(snd.chan), current_frame |-> Head(snd.chan).shapes,
          frame_length |-> total_length(Head(snd.chan).shapes),
          lastRecv |-> Head(snd.chan).id]
    ELSE snd

\* ShapeSound::clone_frame
clone_frame(snd) == snd.current_frame

\* ShapeSound::is_empty
is_empty(snd) == snd.current_frame = <<>>

\* the consumer polls the sound
UpdateFrame ==
    /\ rxAlive
    /\ SetSound(update_frame(Sound))
    /\ op' = Op("update_frame", <<>>)
    /\ UNCHANGED <<chanVars, wheelVars, lfoVars, pointVars, fxVars, plugVars, envVars, rxAlive, prodVars, rendVars, synthVars>>

\* the ShapeSound is dropped: its Receiver goes, the channel is disconnected
DropSound ==
    /\ rxAlive
    /\ rxAlive' = FALSE
    /\ op' = Op("drop_sound", <<>>)
    /\ UNCHANGED <<chanVars, wheelVars, lfoVars, pointVars, fxVars, plugVars, envVars, chan, current_frame, frame_length,
                   lastRecv, prodVars, rendVars,
                   synthVars>>

-----------------------------------------------------------------------------
(* Env (osci-core/src/envelope.rs) *)

Max(a, b) == IF a >= b THEN a ELSE b

Min(a, b) == IF a <= b THEN a ELSE b

\* Env::new with Linear curves
Env(levels, times, release_node) ==
    [levels |-> levels, times |-> times,
     curves |-> [i \in 1..Len(times) |-> "Linear"], release_node |-> release_node]

\* the level/time layout of Env::adsr: levels [0, level, level * sustain, 0],
\* times [attack, decay, release], release node 2
EnvAdsr(attack, decay, sustained, release, level) ==
    Env(<<0, level, sustained, 0>>, <<attack, decay, release>>, 2)

\* the level/time layout of Env::perc: levels [0, level, 0], no release node
EnvPerc(attack, release, level) == Env(<<0, level, 0>>, <<attack, release>>, -1)

\* linlin
linlin(input, in_low, in_high, out_low, out_high) ==
    ((input - in_low) * (out_high - out_low)) \div (in_high - in_low) + out_low

\* the stage search of Env::lookup: while stage_time < time && stage_index < num_times
RECURSIVE lookup_stage(_, _, _, _, _)
lookup_stage(env, time, last_time, stage_time, stage_index) ==
    IF stage_time < time /\ stage_index < Len(env.times)
    THEN lookup_stage(env, time, stage_time, stage_time + env.times[stage_index + 1],
                      stage_index + 1)
    ELSE [last_time |-> last_time, stage_time |-> stage_time, stage_index |-> stage_index]

\* Env::lookup
lookup(env, time) ==
    IF Len(env.levels) < 1 THEN 0
    ELSE IF time <= 0 \/ Len(env.times) = 0 THEN env.levels[1]
    ELSE With(lookup_stage(env, time, 0, 0, 0), LAMBDA st :
         LET level0 == env.levels[st.stage_index]
             level1 == env.levels[st.stage_index + 1]
             curve == env.curves[((st.stage_index - 1) % Max(Len(env.curves), 1)) + 1]
         IN  IF st.stage_index > Len(env.times) THEN env.levels[Len(env.levels)]
             ELSE IF st.last_time = st.stage_time THEN level1
             ELSE IF curve = "Linear"
                  THEN linlin(time, st.last_time, st.stage_time, level0, level1)
                  ELSE level1)

\* well-formed envelopes of two stages: three levels, two times, one curve type
LookupEnvs ==
    {[levels |-> <<l0, l1, l2>>, times |-> <<t1, t2>>, curves |-> <<c, c>>,
      release_node |-> -1] :
        l0 \in 0..MaxLevel, l1 \in 0..MaxLevel, l2 \in 0..MaxLevel,
        t1 \in 1..MaxLevel, t2 \in 1..MaxLevel, c \in {"Linear", "Step"}}

\* Env::new(levels, times, curves, ..)
EnvNew ==
    /\ \E e \in LookupEnvs : lookupEnv' = e /\ lookupValue' = lookup(e, 0)
    /\ lookupTime' = 0
    /\ op' = Op("env_new", <<>>)
    /\ UNCHANGED <<chanVars, wheelVars, lfoVars, pointVars, soundVars, prodVars, rendVars, synthVars, fxVars, plugVars>>

\* env.lookup(time)
EnvLookup ==
    /\ \E t \in 0..MaxTime : lookupTime' = t /\ lookupValue' = lookup(lookupEnv, t)
    /\ op' = Op("lookup", <<>>)
    /\ UNCHANGED <<chanVars, wheelVars, lfoVars, pointVars, soundVars, prodVars, rendVars, synthVars, fxVars, plugVars,
                   lookupEnv>>

\* sum of the first n stage times
RECURSIVE sum_times(_, _)
sum_times(times, n) ==
    IF n <= 0 \/ times = <<>> THEN 0 ELSE Head(times) + sum_times(Tail(times), n - 1)

-----------------------------------------------------------------------------
(* Effects (parameter.rs, voice.rs, registry.rs, vector_cancelling.rs,       *)
(* translate.rs)                                                           *)

\* Parameter values are integers, ValueOne standing for 1.0.  An LFO phase is
\* counted in steps of lfo_rate / sample_rate, PhaseSteps of them making 1.0.
\* Every VoiceEffect is an object of `heap`; a chain is a sequence of addresses.
\* A point of a voice's working buffers is <<x, y, z>>, and a parameter value v
\* moves a coordinate by v units.

Addrs == 1..(MaxChain * (NumVoices + 2))

NoObject == [id |-> ""]

zeros(n) == [i \in 1..n |-> 0]

Abs(x) == IF x < 0 THEN -x ELSE x

\* x / 2 rounded toward zero
Half(x) == IF x < 0 THEN -((-x) \div 2) ELSE x \div 2

RECURSIVE Pow2(_)
Pow2(n) == IF n = 0 THEN 1 ELSE 2 * Pow2(n - 1)

\* A u32 is a pair <<high, low>> of 16-bit halves.

\* bitwise exclusive or of two u16
RECURSIVE XorBits(_, _, _)
XorBits(a, b, bits) ==
    IF bits = 0 THEN 0
    ELSE ((a + b) % 2) + 2 * XorBits(a \div 2, b \div 2, bits - 1)

Xor(a, b) == <<XorBits(a[1], b[1], 16), XorBits(a[2], b[2], 16)>>

\* a << n for n < 16
Shl(a, n) == <<((a[1] * Pow2(n)) % Pow2(16)) + (a[2] \div Pow2(16 - n)),
               (a[2] * Pow2(n)) % Pow2(16)>>

\* a >> n for n >= 16
Shr(a, n) == <<0, a[1] \div Pow2(n - 16)>>

\* a & 0x00FFFFFF
Low24(a) == (a[1] % Pow2(8)) * Pow2(16) + a[2]

\* one step of the xorshift32 generator (parameter.rs:267-269)
xorshift32(s) ==
    With(Xor(s, Shl(s, 13)), LAMBDA s1 :
    With(Xor(s1, Shr(s1, 17)), LAMBDA s2 :
         Xor(s2, Shl(s2, 5))))

\* EffectParameter::new
EffectParameter(value, min, max) ==
    [value |-> value, min |-> min, max |-> max, lfo_type |-> "Static",
     phase |-> 0, rng_state |-> RngSeed]

\* the settings of a parameter: everything but its audio-thread state
settings(p) == [value |-> p.value, min |-> p.min, max |-> p.max, lfo_type |-> p.lfo_type]

\* the phase ramp of one sample: phase += phase_inc; if phase >= 1.0 { phase -= 1.0 }
advance_phase(phase, phase_inc) ==
    IF phase + phase_inc >= PhaseSteps THEN phase + phase_inc - PhaseSteps
    ELSE phase + phase_inc

\* one sample of animate_parameter for a parameter whose lfo_rate / sample_rate is
\* one step: the parameter and the current value after it
animate_sample(param, current_value) ==
    IF param.lfo_type = "Static"
    THEN [param |-> param,
          out |-> IF Abs(current_value - param.value) < SnapThreshold
                  THEN param.value
                  ELSE current_value + Half(param.value - current_value)]
    ELSE IF param.lfo_type = "Noise"
    THEN With(xorshift32(param.rng_state), LAMBDA s :
              [param |-> [param EXCEPT !.rng_state = s],
               out |-> param.min + (Low24(s) * (param.max - param.min))
                                       \div (Pow2(24) - 1)])
    ELSE With(advance_phase(param.phase, 1), LAMBDA ph :
              [param |-> [param EXCEPT !.phase = ph],
               out |-> param.min + (ph * (param.max - param.min)) \div PhaseSteps])

\* animate_parameter over a block of n >= 1 samples: the parameter afterwards,
\* the last value written to the output and the current value
RECURSIVE animate_parameter(_, _, _)
animate_parameter(param, n, current_value) ==
    With(animate_sample(param, current_value), LAMBDA s :
         IF n <= 1
         THEN [param |-> s.param, last |-> s.out, current |-> s.out]
         ELSE animate_parameter(s.param, n - 1,
                                IF param.lfo_type = "Static" THEN s.out
                                ELSE current_value))

\* VoiceEffect::new
VoiceEffect(id, application, parameters) ==
    [id |-> id, application |-> application, parameters |-> parameters,
     enabled |-> TRUE,
     animated_values |-> zeros(Len(parameters)),
     current_values |-> zeros(Len(parameters))]

\* the registry: the constructor and the parameters of an effect id
EffectIds == {"vectorCancelling", "translate"}

find_effect(id) ==
    IF id = "vectorCancelling"
    THEN [application |-> [name |-> "VectorCancelling", last_index |-> 0,
                           next_invert |-> 0],
          parameters |-> <<EffectParameter(0, 0, ValueOne)>>]
    ELSE [application |-> [name |-> "Translate", last_index |-> 0, next_invert |-> 0],
          parameters |-> <<EffectParameter(0, -ValueOne, ValueOne),
                           EffectParameter(0, -ValueOne, ValueOne),
                           EffectParameter(0, -ValueOne, ValueOne)>>]

\* VoiceEffect::animate for a block of n >= 1 samples
animate(e, n) ==
    With([i \in 1..Len(e.parameters) |->
            animate_parameter(e.parameters[i], n, e.current_values[i])],
         LAMBDA r :
         [e EXCEPT !.parameters = [i \in 1..Len(r) |-> r[i].param],
                   !.current_values = [i \in 1..Len(r) |-> r[i].current],
                   !.animated_values = [i \in 1..Len(r) |-> r[i].last]])

\* VoiceEffect::animate reads buf[block_size - 1] for every parameter: with
\* block_size = 0 the subtraction underflows or the index is out of range
animate_faults(e, n) == n = 0 /\ Len(e.parameters) > 0

\* EffectApplication::apply for sample `index` (0-based) of Translate and
\* VectorCancelling: the application and the output point.  next_invert is
\* kept times ValueOne.
apply(app, index, input, values) ==
    IF app.name = "Translate"
    THEN [app |-> app,
          point |-> <<input[1] + values[1], input[2] + values[2], input[3] + values[3]>>]
    ELSE IF values[1] <= 0
    THEN [app |-> app, point |-> input]
    ELSE With(ValueOne + 9 * values[1], LAMBDA cancellation_frequency :
         With(IF index < app.last_index
              THEN app.next_invert - app.last_index * ValueOne + cancellation_frequency
              ELSE app.next_invert, LAMBDA ni :
              IF index >= Max(ni, 0) \div ValueOne
              THEN [app |-> [app EXCEPT !.last_index = index,
                                        !.next_invert = ni + cancellation_frequency],
                    point |-> input]
              ELSE [app |-> [app EXCEPT !.last_index = index, !.next_invert = ni],
                    point |-> <<-input[1], -input[2], input[3]>>]))

\* for i in 0..num_samples: the application and the working buffer afterwards
RECURSIVE apply_block(_, _, _, _, _)
apply_block(app, values, pts, i, n) ==
    IF i >= n THEN [app |-> app, pts |-> pts]
    ELSE With(apply(app, i, pts[i + 1], values), LAMBDA r :
              apply_block(r.app, values, [pts EXCEPT ![i + 1] = r.point], i + 1, n))

\* an effect that runs whether or not it is enabled
apply_effect_even_if_disabled(e, pts, n) ==
    IF animate_faults(e, n) THEN [e |-> e, pts |-> pts, fault |-> TRUE]
    ELSE With(IF n = 0 THEN e ELSE animate(e, n), LAMBDA a :
         With(apply_block(a.application, a.animated_values, pts, 0, n), LAMBDA r :
              [e |-> [a EXCEPT !.application = r.app], pts |-> r.pts, fault |-> FALSE]))

\* the body of the loop of ShapeVoice::apply_effects for one effect: the effect
\* and the working buffer afterwards, or the fault of animate
apply_effect(e, pts, n) ==
    IF ~e.enabled THEN [e |-> e, pts |-> pts, fault |-> FALSE]
    ELSE IF animate_faults(e, n) THEN [e |-> e, pts |-> pts, fault |-> TRUE]
    ELSE With(IF n = 0 THEN e ELSE animate(e, n), LAMBDA a :
         With(apply_block(a.application, a.animated_values, pts, 0, n), LAMBDA r :
              [e |-> [a EXCEPT !.application = r.app], pts |-> r.pts, fault |-> FALSE]))

\* ShapeVoice::apply_effects: the heap and the working buffer after the voice's
\* chain has processed n samples
RECURSIVE apply_effects_chain(_, _, _, _)
apply_effects_chain(h, chain, pts, n) ==
    IF chain = <<>> THEN [heap |-> h, pts |-> pts, fault |-> FALSE]
    ELSE With(apply_effect(h[Head(chain)], pts, n), LAMBDA r :
              IF r.fault THEN [heap |-> h, pts |-> pts, fault |-> TRUE]
              ELSE apply_effects_chain([h EXCEPT ![Head(chain)] = r.e], Tail(chain),
                                       r.pts, n))

-----------------------------------------------------------------------------
(* ShapeVoice (voice.rs) *)

\* end_time of a voice that never played
NoEndTime == 99999999

\* ShapeVoice::new.  `off`, `released`, `started` and `swaps` are history: a NoteOff has
\* been handled for the note being played, the samples rendered since the first
\* one, and the number of the event that started the note;
\* `swaps` holds, for every frame swap of the last render_next_block, the
\* renderer's frame_drawn and shapes_length at the moment of the swap;
\* `ended_at` is the sample index at which the last render_next_block stopped
\* the note, -1 if it did not; `incs` holds, for every sample of the last
\* render_next_block, the length increment passed to the renderer and the
\* shapes_length the renderer held at that moment.
NewVoice ==
    [renderer |-> NewRenderer, note |-> 0, velocity |-> 0, frequency |-> 1,
     actual_frequency |-> PitchDenom, pitch_wheel_adjustment |-> PitchDenom,
     adsr |-> EnvAdsr(1, 1, 1, 2, 2), time |-> 0, release_time |-> 0,
     end_time |-> NoEndTime, waiting_for_release |-> FALSE, active |-> FALSE,
     off |-> FALSE, released |-> 0, started |-> 0, swaps |-> <<>>, ended_at |-> -1,
     incs |-> <<>>]

\* midi_note_to_hz, for notes a whole number of octaves from A4
midi_note_to_hz(note) ==
    LET k == (note - 69) \div 12
    IN  IF k >= 0 THEN 440 * 2 ^ k ELSE 440 \div 2 ^ (0 - k)

\* ShapeVoice::is_active
is_active(v) == v.active

\* start_note: while sound.is_empty() && tries < 50 { sound.update_frame(); }
RECURSIVE load_frame(_, _)
load_frame(snd, tries) ==
    IF is_empty(snd) /\ tries < MaxTries
    THEN With(update_frame(snd), LAMBDA s : load_frame(s, tries + 1))
    ELSE snd

\* ShapeVoice::start_note: the voice and the sound afterwards
start_note(v, snd, midi_note, velocity, env, midi) ==
    With(load_frame(snd, 0), LAMBDA snd1 :
        [v |-> [v EXCEPT
                  !.velocity = velocity,
                  !.note = midi_note,
                  !.active = TRUE,
                  !.renderer = set_shapes(v.renderer, clone_frame(snd1)),
                  !.adsr = env,
                  !.time = 0,
                  !.waiting_for_release = TRUE,
                  !.release_time = sum_times(env.times, env.release_node),
                  !.end_time = sum_times(env.times, Len(env.times)),
                  !.frequency = IF midi THEN midi_note_to_hz(midi_note)
                                ELSE DefaultFrequency,
                  !.off = FALSE,
                  !.released = 0],
         snd |-> snd1])

\* a stop_note that leaves the voice waiting for its release
stop_note_keeps_waiting(v, allow_tail_off) ==
    [v EXCEPT !.active = IF allow_tail_off THEN @ ELSE FALSE]

\* ShapeVoice::stop_note
stop_note(v, allow_tail_off) ==
    [v EXCEPT !.waiting_for_release = FALSE,
              !.active = IF allow_tail_off THEN @ ELSE FALSE]

\* ShapeVoice::pitch_wheel_moved: 1 + (value - 8192) / 65536, as a numerator
pitch_wheel_moved(v, value) ==
    [v EXCEPT !.pitch_wheel_adjustment = PitchDenom + (value - PitchCentre)]

\* Point + Point and Point * gain on the three spatial channels
PAdd(p, q) == [i \in 1..3 |-> p[i] + q[i]]

PScale(p, k) == [i \in 1..3 |-> p[i] * k]

Zero == <<0, 0, 0>>

\* seq followed by zero-valued entries up to length n
PadTo(seq, n, zero) == seq \o [j \in 1..(n - Len(seq)) |-> zero]

\* the length increment of one sample (voice.rs:254-258)
length_increment(frame_len, actual_frequency, sr) ==
    IF sr > 0
    THEN Max((frame_len * actual_frequency) \div (sr * PitchDenom), MinLengthIncrement)
    ELSE MinLengthIncrement

\* an elapsed time that is not held at the release time
advance_time_unclamped(v, t1) == t1

\* the elapsed time kept after a sample: `self.time = self.time.min(self.release_time)`
\* while waiting_for_release (voice.rs:279-281)
advance_time(v, t1) == IF v.waiting_for_release THEN Min(t1, v.release_time) ELSE t1

\* the note ends at elapsed time t1: `else if self.time >= self.end_time`, the
\* branch not taken while waiting_for_release (voice.rs:281-283)
note_ended(v, t1) == ~v.waiting_for_release /\ t1 >= v.end_time

\* One iteration of the first pass of render_next_block (voice.rs:254-301).
\* st holds the voice, the sound, the raw points and the volume buffer so far.
render_sample(st, frame_len, midi, sr) ==
    With(next_vector_with_increment(
             st.v.renderer, length_increment(frame_len, st.v.actual_frequency, sr)),
         LAMBDA nv :
    LET v == st.v
        env_value == IF midi THEN lookup(v.adsr, v.time) ELSE 1
        t1 == IF sr > 0 THEN v.time + 1 ELSE v.time
        stops == note_ended(v, t1)
        swap == ~stops /\ frame_complete(nv.r)
        snd1 == IF swap THEN update_frame(st.snd) ELSE st.snd
    IN  [v |-> [v EXCEPT
                  !.renderer = IF swap
                               THEN reset_frame_drawn(set_shapes(nv.r, clone_frame(snd1)))
                               ELSE nv.r,
                  !.time = advance_time(v, t1),
                  !.active = IF stops THEN FALSE ELSE @,
                  !.released = IF v.off /\ @ <= v.end_time THEN @ + 1 ELSE @,
                  !.swaps = IF swap
                            THEN Append(@, <<nv.r.frame_drawn, nv.r.shapes_length>>)
                            ELSE @,
                  !.incs = Append(@, <<length_increment(frame_len, v.actual_frequency,
                                                        sr),
                                       v.renderer.shapes_length>>)],
         snd |-> snd1,
         pts |-> Append(st.pts, nv.point),
         vol |-> Append(st.vol, env_value),
         hang |-> nv.hang,
         stopped |-> stops])

\* the first pass: for i in 0..num_samples, left early when the note ends
RECURSIVE render_samples(_, _, _, _, _, _)
render_samples(st, i, n, frame_len, midi, sr) ==
    IF i >= n THEN st
    ELSE With(render_sample(st, frame_len, midi, sr), LAMBDA s1 :
             IF s1.hang THEN [st EXCEPT !.hang = TRUE]
             ELSE IF s1.stopped
                  THEN [s1 EXCEPT !.pts = PadTo(s1.pts, n, Zero),
                                  !.vol = PadTo(s1.vol, n, 0),
                                  !.v.ended_at = i]
                  ELSE render_samples(s1, i + 1, n, frame_len, midi, sr))

\* the gain of sample i in the final mix (voice.rs:309-313)
gain(v, vol, i, midi) == IF midi THEN vol[i] * v.velocity ELSE Max(v.velocity, 1)

\* ShapeVoice::render_next_block of a voice whose chain is `chain`: the voice,
\* the sound, the heap and the output buffers afterwards; `added` is what the
\* voice added to the first n output samples
voice_render_next_block(v, snd, h, chain, outbuf, n, midi, sr) ==
    IF ~v.active
    THEN [v |-> v, snd |-> snd, heap |-> h, out |-> outbuf, hang |-> FALSE,
          fault |-> FALSE, added |-> <<>>]
    ELSE With([v EXCEPT !.actual_frequency =
                        IF midi THEN v.frequency * v.pitch_wheel_adjustment
                        ELSE DefaultFrequency * PitchDenom,
                        !.swaps = <<>>,
                        !.ended_at = -1,
                        !.incs = <<>>],
              LAMBDA v1 :
         With(render_samples(
                  [v |-> v1, snd |-> snd, pts |-> <<>>, vol |-> <<>>,
                   hang |-> FALSE, stopped |-> FALSE],
                  0, n, v1.renderer.shapes_length, midi, sr),
              LAMBDA st :
         IF st.hang
         THEN [v |-> v, snd |-> snd, heap |-> h, out |-> outbuf, hang |-> TRUE,
               fault |-> FALSE, added |-> <<>>]
         ELSE With(apply_effects_chain(h, chain, st.pts, n), LAMBDA fx :
              IF fx.fault
              THEN [v |-> v, snd |-> snd, heap |-> h, out |-> outbuf, hang |-> FALSE,
                    fault |-> TRUE, added |-> <<>>]
              ELSE With([i \in 1..n |-> PScale(fx.pts[i], gain(v1, st.vol, i, midi))],
                        LAMBDA added :
                        [v |-> st.v, snd |-> st.snd, heap |-> fx.heap,
                         out |-> [i \in 1..Len(outbuf) |->
                                    IF i <= n THEN PAdd(outbuf[i], added[i])
                                    ELSE outbuf[i]],
                         hang |-> FALSE, fault |-> FALSE, added |-> added]))))

-----------------------------------------------------------------------------
(* Synthesizer (synthesizer.rs) *)

Slots == 1..NumVoices

\* Synthesizer::active_voice_count
active_voice_count(vs) == Cardinality({k \in DOMAIN vs : is_active(vs[k])})

\* a find_free_voice that returns the last inactive slot
find_free_voice_last(vs) ==
    IF \E k \in DOMAIN vs : ~is_active(vs[k])
    THEN CHOOSE k \in DOMAIN vs :
             ~is_active(vs[k]) /\ \A j \in DOMAIN vs : j > k => is_active(vs[j])
    ELSE 0

\* Synthesizer::find_free_voice: the slot, 0 for None
find_free_voice(vs) ==
    IF \E k \in DOMAIN vs : ~is_active(vs[k])
    THEN CHOOSE k \in DOMAIN vs :
             ~is_active(vs[k]) /\ \A j \in DOMAIN vs : j < k => is_active(vs[j])
    ELSE 0

\* a steal_voice that stops every active voice
steal_voice_stops_all(vs) ==
    [voices |-> [k \in DOMAIN vs |-> stop_note(vs[k], FALSE)], idx |-> 1]

\* Synthesizer::steal_voice: the first active voice is stopped without tail-off
steal_voice(vs) ==
    IF \E k \in DOMAIN vs : is_active(vs[k])
    THEN LET idx == CHOOSE k \in DOMAIN vs :
                        is_active(vs[k]) /\ \A j \in DOMAIN vs : j < k => ~is_active(vs[j])
         IN  [voices |-> [vs EXCEPT ![idx] = stop_note(vs[idx], FALSE)], idx |-> idx]
    ELSE [voices |-> vs, idx |-> 1]

\* Synthesizer::note_on
note_on(vs, snd, note, velocity, env, midi) ==
    With(find_free_voice(vs), LAMBDA free :
    With(IF free # 0 THEN [voices |-> vs, idx |-> free] ELSE steal_voice(vs),
         LAMBDA pick :
    With(start_note(pick.voices[pick.idx], snd, note, velocity, env, midi),
         LAMBDA res :
         [voices |-> [pick.voices EXCEPT ![pick.idx] = res.v], snd |-> res.snd,
          idx |-> pick.idx])))

\* a note_off that stops only the first voice playing the note
note_off_first_only(vs, note) ==
    [k \in DOMAIN vs |->
        IF /\ is_active(vs[k]) /\ vs[k].note = note
           /\ \A j \in DOMAIN vs : j < k => ~(is_active(vs[j]) /\ vs[j].note = note)
        THEN [stop_note(vs[k], TRUE) EXCEPT !.off = TRUE,
                                            !.released = IF vs[k].off THEN @ ELSE 0]
        ELSE vs[k]]

\* Synthesizer::note_off
note_off(vs, note) ==
    [k \in DOMAIN vs |->
        IF is_active(vs[k]) /\ vs[k].note = note
        THEN [stop_note(vs[k], TRUE) EXCEPT !.off = TRUE,
                                            !.released = IF vs[k].off THEN @ ELSE 0]
        ELSE vs[k]]

\* Synthesizer::handle_midi_event, PitchWheel
pitch_wheel(vs, value) ==
    [k \in DOMAIN vs |-> IF is_active(vs[k]) THEN pitch_wheel_moved(vs[k], value) ELSE vs[k]]

\* render_next_block without the clearing loop
clear_output_skipped(buf, n) == buf

\* the output buffers with their first n entries cleared (synthesizer.rs:135-139)
clear_output(buf, n) == [i \in 1..Len(buf) |-> IF i <= n THEN Zero ELSE buf[i]]

\* the voices rendered in slot order, each adding to the output (synthesizer.rs:142-154)
RECURSIVE render_voices(_, _, _, _, _, _)
render_voices(acc, effs, k, n, midi, sr) ==
    IF k > Len(acc.voices) \/ acc.hang \/ acc.fault THEN acc
    ELSE With(voice_render_next_block(acc.voices[k], acc.snd, acc.heap, effs[k], acc.out,
                                      n, midi, sr),
              LAMBDA res :
         With([voices |-> [acc.voices EXCEPT ![k] = res.v], snd |-> res.snd,
               heap |-> res.heap, out |-> res.out, hang |-> res.hang,
               fault |-> res.fault,
               rendered |-> [acc.rendered EXCEPT ![k] = res.added]],
              LAMBDA next : render_voices(next, effs, k + 1, n, midi, sr)))

\* Synthesizer::render_next_block on buffers holding `buf`
render_next_block(vs, snd, h, effs, buf, n, midi, sr) ==
    With([voices |-> vs, snd |-> snd, heap |-> h, out |-> clear_output(buf, n),
          hang |-> FALSE, fault |-> FALSE, rendered |-> [k \in DOMAIN vs |-> <<>>]],
         LAMBDA acc : render_voices(acc, effs, 1, n, midi, sr))

-----------------------------------------------------------------------------
(* Inputs of the synthesizer model *)

\* MIDI notes: A4 (440 Hz) and A5 (880 Hz)
Notes == {69, 81}

Velocities == {2}

\* pitch-wheel values: full down
PitchValues == {0}

\* envelopes set_adsr installs; times are in samples
Envs == {EnvAdsr(1, 1, 1, 2, 2), EnvPerc(1, 1, 2)}

\* frames a sender puts on the channel
SynthFrames == {FrameLine, FramePoint, FrameTwoLines}

\* sample rate in Hz: two samples per cycle of A4
SampleRateHz == 2 * DefaultFrequency

\* (midi_enabled, sample_rate) a Synthesizer is set up with
SynthConfigs == {<<TRUE, SampleRateHz>>, <<FALSE, SampleRateHz>>, <<TRUE, 0>>}

\* what the host's buffers hold when it calls render_next_block
PreBuffers == {[i \in 1..BufLen |-> <<7, 7, 7>>]}

-----------------------------------------------------------------------------
(* Operations on the Synthesizer, all on the audio thread *)

\* handle_midi_event(NoteOn { note, velocity }).  op records the event and
\* what find_free_voice returned.
NoteOn ==
    /\ ~hung
    /\ ~panicked
    /\ events < MaxEvents
    /\ events' = events + 1
    /\ rxAlive
    /\ \E note \in Notes, velocity \in Velocities :
         \E res \in {note_on(voices, Sound, note, velocity, adsr, midi_enabled)} :
             /\ voices' = [res.voices EXCEPT ![res.idx].started = events + 1]
             /\ SetSound(res.snd)
             /\ op' = Op("note_on", <<note, velocity, find_free_voice(voices)>>)
    /\ UNCHANGED <<chanVars, wheelVars, lfoVars, pointVars, fxVars, plugVars, envVars, rxAlive, adsr, midi_enabled,
                   sample_rate, out, hung, panicked, outPre,
                   numSamples, rendered, prodVars, rendVars>>

\* handle_midi_event(NoteOff { note, .. })
NoteOff ==
    /\ ~hung
    /\ ~panicked
    /\ events < MaxEvents
    /\ events' = events + 1
    /\ \E note \in Notes :
         /\ voices' = note_off(voices, note)
         /\ op' = Op("note_off", <<note>>)
    /\ UNCHANGED <<chanVars, wheelVars, lfoVars, pointVars, fxVars, plugVars, envVars, soundVars, adsr, midi_enabled,
                   sample_rate, out, hung, panicked, outPre,
                   numSamples, rendered, prodVars, rendVars>>

\* handle_midi_event(PitchWheel { value })
PitchWheel ==
    /\ ~hung
    /\ ~panicked
    /\ events < MaxEvents
    /\ events' = events + 1
    /\ \E value \in PitchValues :
         /\ voices' = pitch_wheel(voices, value)
         /\ lastWheel' = value
         /\ op' = Op("pitch_wheel", <<value>>)
    /\ UNCHANGED <<chanVars, lfoVars, pointVars, fxVars, plugVars, envVars, soundVars, adsr, midi_enabled,
                   sample_rate, out, hung, panicked, outPre,
                   numSamples, rendered, prodVars, rendVars>>

\* Synthesizer::set_adsr
SetAdsr ==
    /\ ~hung
    /\ ~panicked
    /\ events < MaxEvents
    /\ events' = events + 1
    /\ \E env \in Envs \ {adsr} :
         /\ adsr' = env
         /\ op' = Op("set_adsr", <<>>)
    /\ UNCHANGED <<chanVars, wheelVars, lfoVars, pointVars, fxVars, plugVars, envVars, soundVars, voices, midi_enabled,
                   sample_rate, out, hung, panicked, outPre,
                   numSamples, rendered, prodVars, rendVars>>

\* Synthesizer::render_next_block(out_x, out_y, out_z, num_samples, sound).
\* When a voice's renderer never leaves its skip loop the call does not return;
\* when an effect's animate faults the call panics.
render_call ==
    /\ ~hung
    /\ ~panicked
    /\ rxAlive
    /\ \E n \in 0..BufLen, buf \in PreBuffers :
         \E res \in {render_next_block(voices, Sound, heap, effects, buf, n,
                                       midi_enabled, sample_rate)} :
             /\ IF res.hang \/ res.fault
                THEN /\ hung' = res.hang
                     /\ panicked' = res.fault
                     /\ UNCHANGED <<chan, current_frame, frame_length, lastRecv, voices,
                                    out, outPre, numSamples, rendered, heap>>
                ELSE /\ voices' = res.voices
                     /\ SetSound(res.snd)
                     /\ heap' = res.heap
                     /\ out' = res.out
                     /\ outPre' = buf
                     /\ numSamples' = n
                     /\ rendered' = res.rendered
                     /\ UNCHANGED <<hung, panicked>>
             /\ op' = Op("render_next_block", <<n>>)
    /\ UNCHANGED <<chanVars, wheelVars, lfoVars, pointVars, effect_template, effects, plugVars, envVars, rxAlive,
                   adsr, midi_enabled, sample_rate, prodVars, rendVars>>

\* one of the calls the model follows event by event
RenderNextBlock ==
    /\ events < MaxEvents
    /\ events' = events + 1
    /\ render_call

\* the host goes on calling render_next_block, block after block
RenderNextBlockSteady ==
    /\ UNCHANGED events
    /\ render_call

\* a holder of sound.sender() sends a frame; send returns only when there is room
SendFrame ==
    /\ rxAlive
    /\ events < MaxEvents
    /\ events' = events + 1
    /\ Len(chan) < Capacity
    /\ \E f \in SynthFrames : chan' = Append(chan, [id |-> nextId, shapes |-> f])
    /\ nextId' = (nextId + 1) % SeqMod
    /\ op' = Op("send_frame", <<>>)
    /\ UNCHANGED <<chanVars, wheelVars, lfoVars, pointVars, fxVars, plugVars, envVars, rxAlive, current_frame, frame_length,
                   lastRecv, running, thread,
                   source, prodPc, pending, exitReason, stopPc, rendVars, voices, adsr,
                   midi_enabled, sample_rate, out, hung, panicked, outPre, numSamples, rendered>>

-----------------------------------------------------------------------------
(* FrameSource and FrameProducer (frame_producer.rs) *)

StaticFrameSource(shapes) == [kind |-> "static", frames |-> <<shapes>>, current_frame |-> 0]

AnimatedFrameSource(frames) == [kind |-> "animated", frames |-> frames, current_frame |-> 0]

\* next_frame(): <<frame>> for Some(frame), <<>> for None
next_frame_result(src) ==
    IF src.kind = "static" THEN <<src.frames[1]>>
    ELSE IF src.frames = <<>> THEN <<>>
    ELSE <<src.frames[src.current_frame + 1]>>

\* next_frame(): the source afterwards
next_frame_source(src) ==
    IF src.kind = "static" \/ src.frames = <<>> THEN src
    ELSE [src EXCEPT !.current_frame = (src.current_frame + 1) % Len(src.frames)]

Sources ==
    { StaticFrameSource(FrameLine),
      AnimatedFrameSource(<<FrameLine, FrameMixed>>),
      AnimatedFrameSource(<<>>) }

\* while running_clone.load(Ordering::Relaxed)
ProducerCheck ==
    /\ prodPc = "check"
    /\ IF running
       THEN prodPc' = "next" /\ UNCHANGED exitReason
       ELSE prodPc' = "done" /\ exitReason' = "stopped"
    /\ op' = Op("producer_check", <<>>)
    /\ UNCHANGED <<chanVars, wheelVars, lfoVars, pointVars, fxVars, plugVars, envVars, soundVars, running, thread, source,
                   pending, stopPc, nextId,
                   rendVars, synthVars>>

\* match source.next_frame()
ProducerNextFrame ==
    /\ prodPc = "next"
    /\ LET f == next_frame_result(source)
       IN  IF f = <<>>
           THEN /\ prodPc' = "done"
                /\ exitReason' = "exhausted"
                /\ UNCHANGED <<pending, nextId>>
           ELSE /\ prodPc' = "send"
                /\ pending' = [id |-> nextId, shapes |-> f[1]]
                /\ nextId' = (nextId + 1) % SeqMod
                /\ UNCHANGED exitReason
    /\ source' = next_frame_source(source)
    /\ op' = Op("producer_next_frame", <<>>)
    /\ UNCHANGED <<chanVars, wheelVars, lfoVars, pointVars, fxVars, plugVars, envVars, soundVars, running, thread, stopPc,
                   rendVars, synthVars>>

\* frame_tx.send(frame) can return: there is room, or every Receiver is gone
send_ready == ~rxAlive \/ Len(chan) < Capacity

\* a send whose error is ignored: the loop goes on after a failed send
send_frame_ignore_err ==
    /\ prodPc = "send"
    /\ send_ready
    /\ prodPc' = "check"
    /\ UNCHANGED exitReason
    /\ IF rxAlive THEN chan' = Append(chan, pending) ELSE UNCHANGED chan

\* if frame_tx.send(frame).is_err() { break; }
send_frame ==
    /\ prodPc = "send"
    /\ send_ready
    /\ IF rxAlive
       THEN /\ chan' = Append(chan, pending)
            /\ prodPc' = "check"
            /\ UNCHANGED exitReason
       ELSE /\ prodPc' = "done"
            /\ exitReason' = "disconnected"
            /\ UNCHANGED chan

ProducerSend ==
    /\ send_frame
    /\ op' = Op("producer_send", <<>>)
    /\ UNCHANGED <<chanVars, wheelVars, lfoVars, pointVars, fxVars, plugVars, envVars, rxAlive, current_frame, frame_length,
                   lastRecv, running, thread,
                   source, pending, stopPc, nextId, rendVars, synthVars>>

\* FrameProducer::stop up to the join
StopCall ==
    /\ stopPc # "joining"
    /\ running' = FALSE
    /\ IF thread = "some"
       THEN thread' = "none" /\ stopPc' = "joining"
       ELSE UNCHANGED thread /\ stopPc' = "returned"
    /\ op' = Op("stop", <<>>)
    /\ UNCHANGED <<chanVars, wheelVars, lfoVars, pointVars, fxVars, plugVars, envVars, soundVars, source, prodPc, pending,
                   exitReason, nextId, rendVars,
                   synthVars>>

\* thread.join() returns once the thread has finished
StopJoin ==
    /\ stopPc = "joining"
    /\ prodPc = "done"
    /\ stopPc' = "returned"
    /\ op' = Op("stop_join", <<>>)
    /\ UNCHANGED <<chanVars, wheelVars, lfoVars, pointVars, fxVars, plugVars, envVars, soundVars, running, thread, source,
                   prodPc, pending, exitReason,
                   nextId, rendVars, synthVars>>

\* FrameProducer::is_running
is_running == running

-----------------------------------------------------------------------------
(* The effect template and the voices' chains (synthesizer.rs, lib.rs) *)

\* a new heap object: Box::new / Vec::push
alloc(h) == CHOOSE a \in Addrs : h[a] = NoObject /\ \A b \in Addrs : b < a => h[b] # NoObject

\* dropping a chain: its objects are freed unless `live` still refers to them
RECURSIVE drop_chain(_, _, _)
drop_chain(h, chain, live) ==
    IF chain = <<>> THEN h
    ELSE drop_chain(IF Head(chain) \in live THEN h
                    ELSE [h EXCEPT ![Head(chain)] = NoObject], Tail(chain), live)

\* a clone_voice_effect that hands out the template's own object
clone_voice_effect_shared(h, a) == [heap |-> h, addr |-> a]

\* VoiceEffect::clone_voice_effect: a new object with the id, the application,
\* the parameters and the enabled flag of h[a], and zeroed animation values
clone_voice_effect(h, a) ==
    With(alloc(h), LAMBDA b :
         [heap |-> [h EXCEPT ![b] =
                       [h[a] EXCEPT !.animated_values = zeros(Len(h[a].parameters)),
                                    !.current_values = zeros(Len(h[a].parameters))]],
          addr |-> b])

\* template.iter().map(|e| e.clone_voice_effect()).collect()
RECURSIVE clone_chain(_, _)
clone_chain(h, template) ==
    IF template = <<>> THEN [heap |-> h, chain |-> <<>>]
    ELSE With(clone_voice_effect(h, Head(template)), LAMBDA c :
         With(clone_chain(c.heap, Tail(template)), LAMBDA rest :
              [heap |-> rest.heap, chain |-> <<c.addr>> \o rest.chain]))

Range(f) == {f[i] : i \in DOMAIN f}

\* Synthesizer::set_effect_template from voice k on: each voice gets its clones,
\* then its old chain is dropped
RECURSIVE set_effect_template_from(_, _, _, _)
set_effect_template_from(h, effs, template, k) ==
    IF k > NumVoices THEN [heap |-> h, effects |-> effs]
    ELSE With(clone_chain(h, template), LAMBDA c :
              set_effect_template_from(drop_chain(c.heap, effs[k], Range(c.chain)),
                                       [effs EXCEPT ![k] = c.chain], template, k + 1))

set_effect_template(h, effs, template) == set_effect_template_from(h, effs, template, 1)

\* the UI commands process() applies to the template (lib.rs:289-398)
RemoveAt(s, i) == [j \in 1..(Len(s) - 1) |-> IF j < i THEN s[j] ELSE s[j + 1]]

Commands ==
    {[name |-> "AddEffect", id |-> id] : id \in EffectIds}
    \cup {[name |-> "RemoveEffect", idx |-> i] : i \in 1..MaxChain}
    \cup {[name |-> "SetEffectEnabled", idx |-> i, enabled |-> b] :
              i \in 1..MaxChain, b \in BOOLEAN}
    \cup {[name |-> "SetParamValue", effect_idx |-> i, param_idx |-> 1, value |-> v] :
              i \in 1..MaxChain, v \in {ValueOne}}
    \cup {[name |-> "SetLfo", effect_idx |-> i, param_idx |-> 1, lfo_type |-> t] :
              i \in 1..MaxChain, t \in {"Sawtooth", "Noise"}}

\* one arm of the match in process(): the heap, the template and effects_changed
apply_command(h, template, cmd) ==
    IF cmd.name = "AddEffect"
    THEN With(find_effect(cmd.id), LAMBDA entry :
              [heap |-> [h EXCEPT ![alloc(h)] =
                            VoiceEffect(cmd.id, entry.application, entry.parameters)],
               template |-> Append(template, alloc(h)), changed |-> TRUE])
    ELSE IF cmd.name = "RemoveEffect"
    THEN IF cmd.idx <= Len(template)
         THEN [heap |-> [h EXCEPT ![template[cmd.idx]] = NoObject],
               template |-> RemoveAt(template, cmd.idx), changed |-> TRUE]
         ELSE [heap |-> h, template |-> template, changed |-> FALSE]
    ELSE IF cmd.name = "SetEffectEnabled"
    THEN IF cmd.idx <= Len(template)
         THEN [heap |-> [h EXCEPT ![template[cmd.idx]].enabled = cmd.enabled],
               template |-> template, changed |-> TRUE]
         ELSE [heap |-> h, template |-> template, changed |-> FALSE]
    ELSE IF cmd.effect_idx <= Len(template)
            /\ cmd.param_idx <= Len(h[template[cmd.effect_idx]].parameters)
    THEN [heap |-> [h EXCEPT ![template[cmd.effect_idx]].parameters[cmd.param_idx] =
                       IF cmd.name = "SetParamValue"
                       THEN [@ EXCEPT !.value = cmd.value]
                       ELSE [@ EXCEPT !.lfo_type = cmd.lfo_type]],
          template |-> template, changed |-> TRUE]
    ELSE [heap |-> h, template |-> template, changed |-> FALSE]

\* process(): one queued command is drained and, if it changed the template,
\* the template is synced to every voice (lib.rs:286-404)
ProcessCommand ==
    /\ ~panicked
    /\ events < MaxEvents
    /\ \E cmd \in Commands :
         /\ cmd.name = "AddEffect" => Len(effect_template) < MaxChain
         /\ \E r \in {apply_command(heap, effect_template, cmd)} :
              /\ effect_template' = r.template
              /\ IF r.changed
                 THEN \E s \in {set_effect_template(r.heap, effects, r.template)} :
                         heap' = s.heap /\ effects' = s.effects
                 ELSE heap' = r.heap /\ effects' = effects
              /\ op' = Op("process", [cmd |-> cmd, changed |-> r.changed])
    /\ events' = events + 1
    /\ UNCHANGED <<chanVars, wheelVars, lfoVars, pointVars, plugVars, envVars, soundVars, prodVars, rendVars, voices, adsr,
                   midi_enabled,
                   sample_rate, out, hung, panicked, outPre, numSamples, rendered>>

\* what the working buffers of a voice hold after the first pass of a block
VoiceBuffer(n) == [i \in 1..n |-> <<i, 2, 1>>]

\* voice k runs the n samples of its working buffers through its chain
\* (voice.rs:321-348); op records the buffers before and after
ApplyEffects ==
    /\ ~panicked
    /\ events < MaxEvents
    /\ \E k \in Slots, n \in 1..BufLen :
         /\ effects[k] # <<>>
         /\ \E r \in {apply_effects_chain(heap, effects[k], VoiceBuffer(n), n)} :
              /\ heap' = r.heap
              /\ op' = Op("apply_effects", <<k, n, VoiceBuffer(n), r.pts>>)
    /\ events' = events + 1
    /\ UNCHANGED <<chanVars, wheelVars, lfoVars, pointVars, plugVars, envVars, soundVars, prodVars, rendVars, voices, adsr,
                   midi_enabled,
                   sample_rate, out, hung, panicked, outPre, numSamples, rendered,
                   effect_template, effects>>

-----------------------------------------------------------------------------
(* The audio callback and the editor (osci-plugin/src/lib.rs) *)

\* process() starts: parameters are read, effects_changed = false
AudioBegin ==
    /\ audioPc = "idle"
    /\ audioPc' = "drain"
    /\ effects_changed' = FALSE
    /\ op' = Op("process_begin", <<>>)
    /\ UNCHANGED <<chanVars, wheelVars, lfoVars, pointVars, soundVars, prodVars, rendVars, synthVars, fxVars, envVars,
                   editorPc, command_rx, effect_snapshots, vis_buffer>>

\* one turn of `while let Ok(cmd) = self.command_rx.try_recv()`: try_recv
\* returns at once, with a command or with Empty
AudioTryRecv ==
    /\ audioPc = "drain"
    /\ IF command_rx > 0
       THEN /\ command_rx' = command_rx - 1
            /\ effects_changed' = TRUE
            /\ UNCHANGED audioPc
       ELSE /\ audioPc' = IF effects_changed THEN "lock_snapshots" ELSE "render"
            /\ UNCHANGED <<command_rx, effects_changed>>
    /\ op' = Op("try_recv", <<command_rx>>)
    /\ UNCHANGED <<chanVars, wheelVars, lfoVars, pointVars, soundVars, prodVars, rendVars, synthVars, fxVars, envVars,
                   editorPc, effect_snapshots, vis_buffer>>

\* self.effect_snapshots.lock() returns once the mutex is free
AudioLockSnapshots ==
    /\ audioPc = "lock_snapshots"
    /\ effect_snapshots = "free"
    /\ effect_snapshots' = "audio"
    /\ audioPc' = "snapshots_held"
    /\ op' = Op("audio_lock_snapshots", <<>>)
    /\ UNCHANGED <<chanVars, wheelVars, lfoVars, pointVars, soundVars, prodVars, rendVars, synthVars, fxVars, envVars,
                   editorPc, command_rx, effects_changed, vis_buffer>>

\* *snaps = snapshots; the guard is dropped
AudioUnlockSnapshots ==
    /\ audioPc = "snapshots_held"
    /\ effect_snapshots' = "free"
    /\ audioPc' = "render"
    /\ op' = Op("audio_unlock_snapshots", <<>>)
    /\ UNCHANGED <<chanVars, wheelVars, lfoVars, pointVars, soundVars, prodVars, rendVars, synthVars, fxVars, envVars,
                   editorPc, command_rx, effects_changed, vis_buffer>>

\* the MIDI events are drained and the block is rendered and copied out
AudioRender ==
    /\ audioPc = "render"
    /\ audioPc' = "lock_vis"
    /\ op' = Op("render", <<>>)
    /\ UNCHANGED <<chanVars, wheelVars, lfoVars, pointVars, soundVars, prodVars, rendVars, synthVars, fxVars, envVars,
                   editorPc, command_rx, effects_changed, effect_snapshots, vis_buffer>>

\* self.vis_buffer.lock() returns once the mutex is free
AudioLockVis ==
    /\ audioPc = "lock_vis"
    /\ vis_buffer = "free"
    /\ vis_buffer' = "audio"
    /\ audioPc' = "vis_held"
    /\ op' = Op("audio_lock_vis", <<>>)
    /\ UNCHANGED <<chanVars, wheelVars, lfoVars, pointVars, soundVars, prodVars, rendVars, synthVars, fxVars, envVars,
                   editorPc, command_rx, effects_changed, effect_snapshots>>

\* the samples are copied; the guard is dropped and process() returns
AudioUnlockVis ==
    /\ audioPc = "vis_held"
    /\ vis_buffer' = "free"
    /\ audioPc' = "idle"
    /\ op' = Op("audio_unlock_vis", <<>>)
    /\ UNCHANGED <<chanVars, wheelVars, lfoVars, pointVars, soundVars, prodVars, rendVars, synthVars, fxVars, envVars,
                   editorPc, command_rx, effects_changed, effect_snapshots>>

\* the editor's frame closure: shared.effect_snapshots.lock()
EditorLockSnapshots ==
    /\ editorPc = "idle"
    /\ effect_snapshots = "free"
    /\ effect_snapshots' = "editor"
    /\ editorPc' = "snapshots_held"
    /\ op' = Op("editor_lock_snapshots", <<>>)
    /\ UNCHANGED <<chanVars, wheelVars, lfoVars, pointVars, soundVars, prodVars, rendVars, synthVars, fxVars, envVars,
                   audioPc, command_rx, effects_changed, vis_buffer>>

\* .map(|s| s.clone()): the snapshots are cloned, the guard is dropped
EditorUnlockSnapshots ==
    /\ editorPc = "snapshots_held"
    /\ effect_snapshots' = "free"
    /\ editorPc' = "lock_vis"
    /\ op' = Op("editor_unlock_snapshots", <<>>)
    /\ UNCHANGED <<chanVars, wheelVars, lfoVars, pointVars, soundVars, prodVars, rendVars, synthVars, fxVars, envVars,
                   audioPc, command_rx, effects_changed, vis_buffer>>

\* shared.vis_buffer.lock()
EditorLockVis ==
    /\ editorPc = "lock_vis"
    /\ vis_buffer = "free"
    /\ vis_buffer' = "editor"
    /\ editorPc' = "vis_held"
    /\ op' = Op("editor_lock_vis", <<>>)
    /\ UNCHANGED <<chanVars, wheelVars, lfoVars, pointVars, soundVars, prodVars, rendVars, synthVars, fxVars, envVars,
                   audioPc, command_rx, effects_changed, effect_snapshots>>

\* the x and y vectors are cloned, the guard is dropped
EditorUnlockVis ==
    /\ editorPc = "vis_held"
    /\ vis_buffer' = "free"
    /\ editorPc' = "draw"
    /\ op' = Op("editor_unlock_vis", <<>>)
    /\ UNCHANGED <<chanVars, wheelVars, lfoVars, pointVars, soundVars, prodVars, rendVars, synthVars, fxVars, envVars,
                   audioPc, command_rx, effects_changed, effect_snapshots>>

\* draw_editor: the widgets try_send `sent` commands; a full channel drops them
EditorDraw ==
    /\ editorPc = "draw"
    /\ \E sent \in 0..1 :
         /\ command_rx' = Min(command_rx + sent, MaxQueued)
         /\ op' = Op("draw_editor", <<sent>>)
    /\ editorPc' = "idle"
    /\ UNCHANGED <<chanVars, wheelVars, lfoVars, pointVars, soundVars, prodVars, rendVars, synthVars, fxVars, envVars,
                   audioPc, effects_changed, effect_snapshots, vis_buffer>>

NextPlugin ==
    \/ AudioBegin
    \/ AudioTryRecv
    \/ AudioLockSnapshots
    \/ AudioUnlockSnapshots
    \/ AudioRender
    \/ AudioLockVis
    \/ AudioUnlockVis
    \/ EditorLockSnapshots
    \/ EditorUnlockSnapshots
    \/ EditorLockVis
    \/ EditorUnlockVis
    \/ EditorDraw

-----------------------------------------------------------------------------
(* The command channel of the plugin (osci-plugin/src/lib.rs, effect_panel.rs) *)

\* the commands the widgets of the model send
SentCommands ==
    {[name |-> "AddEffect", id |-> "translate"], [name |-> "RemoveEffect", idx |-> 1]}

\* Sender::try_send on a sender of channel `tx`, the plugin holding the receiver
\* of channel `rx_chan` with `queue` in it: Disconnected once the receiver of
\* its channel has been dropped, Full at capacity, the message queued otherwise
try_send(tx, rx_chan, queue, cmd) ==
    IF tx # rx_chan THEN [result |-> "Disconnected", queue |-> queue]
    ELSE IF Len(queue) >= MaxQueued THEN [result |-> "Full", queue |-> queue]
    ELSE [result |-> "Ok", queue |-> Append(queue, cmd)]

\* Plugin::editor: the editor gets a clone of the plugin's current command_tx
PluginEditor ==
    /\ editor_tx' = <<command_tx>>
    /\ op' = Op("editor", <<command_tx>>)
    /\ UNCHANGED <<command_tx, command_queue, accepted, received>>
    /\ UNCHANGED <<soundVars, prodVars, rendVars, synthVars, fxVars, plugVars, envVars,
                   pointVars, lfoVars, wheelVars>>

\* Plugin::initialize: a fresh channel replaces command_tx and command_rx; the
\* old receiver is dropped with whatever was queued in it
PluginInitialize ==
    /\ command_tx < MaxInits
    /\ command_tx' = command_tx + 1
    /\ command_queue' = <<>>
    /\ op' = Op("initialize", <<command_tx + 1>>)
    /\ UNCHANGED <<editor_tx, accepted, received>>
    /\ UNCHANGED <<soundVars, prodVars, rendVars, synthVars, fxVars, plugVars, envVars,
                   pointVars, lfoVars, wheelVars>>

\* a widget of the editor: let _ = tx.try_send(cmd)
EditorTrySend ==
    /\ editor_tx # <<>>
    /\ Len(accepted) < MaxSends
    /\ \E cmd \in SentCommands :
         \E r \in {try_send(editor_tx[1], command_tx, command_queue, cmd)} :
            /\ command_queue' = r.queue
            /\ accepted' = IF r.result = "Ok" THEN Append(accepted, cmd) ELSE accepted
            /\ op' = Op("try_send", <<cmd, r.result>>)
    /\ UNCHANGED <<command_tx, editor_tx, received>>
    /\ UNCHANGED <<soundVars, prodVars, rendVars, synthVars, fxVars, plugVars, envVars,
                   pointVars, lfoVars, wheelVars>>

\* the drain loop of Plugin::process: try_recv until the channel is empty
PluginProcess ==
    /\ received' = received \o command_queue
    /\ command_queue' = <<>>
    /\ op' = Op("process", <<command_queue>>)
    /\ UNCHANGED <<command_tx, editor_tx, accepted>>
    /\ UNCHANGED <<soundVars, prodVars, rendVars, synthVars, fxVars, plugVars, envVars,
                   pointVars, lfoVars, wheelVars>>

NextChannel ==
    \/ PluginEditor
    \/ PluginInitialize
    \/ EditorTrySend
    \/ PluginProcess

-----------------------------------------------------------------------------
(* Point (point.rs) *)

\* Point::with_rgb
PointWithRgb(x, y, z, r, g, b) == <<x, y, z, r, g, b>>

\* Point::new: z is replicated to the colour channels
PointNew(x, y, z) == PointWithRgb(x, y, z, z, z, z)

\* Point + Point
point_add(p, q) == [i \in 1..6 |-> p[i] + q[i]]

\* Point + f32
point_add_scalar(p, k) == [i \in 1..6 |-> IF i <= 3 THEN p[i] + k ELSE p[i]]

\* Point - Point
point_sub(p, q) == [i \in 1..6 |-> p[i] - q[i]]

\* Point - f32
point_sub_scalar(p, k) == [i \in 1..6 |-> IF i <= 3 THEN p[i] - k ELSE p[i]]

\* -Point
point_neg(p) == [i \in 1..6 |-> IF i <= 3 THEN -p[i] ELSE p[i]]

\* Point * Point
point_mul(p, q) == [i \in 1..6 |-> p[i] * q[i]]

\* Point * f32
point_mul_scalar(p, k) == [i \in 1..6 |-> IF i <= 3 THEN p[i] * k ELSE p[i]]

\* Point *= f32
point_mul_assign_scalar(p, k) == [i \in 1..6 |-> p[i] * k]

\* Point /= f32, for channels the scalar divides
point_div_assign_scalar(p, k) == [i \in 1..6 |-> p[i] \div k]

\* operands: every combination of channel values, and their multiples by Scalars
ChannelValues == 1..MaxChannel

Scalars == {2, 3}

Points == {PointWithRgb(x, y, z, r, g, b) :
              x \in ChannelValues, y \in ChannelValues, z \in ChannelValues,
              r \in ChannelValues, g \in ChannelValues, b \in ChannelValues}

RhsPoints == {PointWithRgb(2, 3, 2, 3, 2, 3), PointWithRgb(3, 2, 3, 2, 3, 2)}

PointAdd ==
    /\ \E p \in Points, q \in RhsPoints :
         /\ ptIn' = p
         /\ ptRhs' = q
         /\ ptOut' = point_add(p, q)
    /\ op' = Op("point_add", <<>>)
    /\ UNCHANGED <<chanVars, wheelVars, lfoVars, soundVars, prodVars, rendVars, synthVars, fxVars, plugVars, envVars>>

PointSub ==
    /\ \E p \in Points, q \in RhsPoints :
         /\ ptIn' = p
         /\ ptRhs' = q
         /\ ptOut' = point_sub(p, q)
    /\ op' = Op("point_sub", <<>>)
    /\ UNCHANGED <<chanVars, wheelVars, lfoVars, soundVars, prodVars, rendVars, synthVars, fxVars, plugVars, envVars>>

PointNeg ==
    /\ \E p \in Points :
         /\ ptIn' = p
         /\ ptRhs' = <<>>
         /\ ptOut' = point_neg(p)
    /\ op' = Op("point_neg", <<>>)
    /\ UNCHANGED <<chanVars, wheelVars, lfoVars, soundVars, prodVars, rendVars, synthVars, fxVars, plugVars, envVars>>

PointMul ==
    /\ \E p \in Points, q \in RhsPoints :
         /\ ptIn' = p
         /\ ptRhs' = q
         /\ ptOut' = point_mul(p, q)
    /\ op' = Op("point_mul", <<>>)
    /\ UNCHANGED <<chanVars, wheelVars, lfoVars, soundVars, prodVars, rendVars, synthVars, fxVars, plugVars, envVars>>

PointAddScalar ==
    /\ \E p \in Points, k \in Scalars :
         /\ ptIn' = p
         /\ ptRhs' = k
         /\ ptOut' = point_add_scalar(p, k)
    /\ op' = Op("point_add_scalar", <<>>)
    /\ UNCHANGED <<chanVars, wheelVars, lfoVars, soundVars, prodVars, rendVars, synthVars, fxVars, plugVars, envVars>>

PointSubScalar ==
    /\ \E p \in Points, k \in Scalars :
         /\ ptIn' = p
         /\ ptRhs' = k
         /\ ptOut' = point_sub_scalar(p, k)
    /\ op' = Op("point_sub_scalar", <<>>)
    /\ UNCHANGED <<chanVars, wheelVars, lfoVars, soundVars, prodVars, rendVars, synthVars, fxVars, plugVars, envVars>>

PointMulScalar ==
    /\ \E p \in Points, k \in Scalars :
         /\ ptIn' = p
         /\ ptRhs' = k
         /\ ptOut' = point_mul_scalar(p, k)
    /\ op' = Op("point_mul_scalar", <<>>)
    /\ UNCHANGED <<chanVars, wheelVars, lfoVars, soundVars, prodVars, rendVars, synthVars, fxVars, plugVars, envVars>>

PointMulAssignScalar ==
    /\ \E p \in Points, k \in Scalars :
         /\ ptIn' = p
         /\ ptRhs' = k
         /\ ptOut' = point_mul_assign_scalar(p, k)
    /\ op' = Op("point_mul_assign_scalar", <<>>)
    /\ UNCHANGED <<chanVars, wheelVars, lfoVars, soundVars, prodVars, rendVars, synthVars, fxVars, plugVars, envVars>>

\* the operand is a multiple of the scalar, so that the division is exact
PointDivAssignScalar ==
    /\ \E p \in Points, k \in Scalars :
         /\ ptIn' = point_mul_assign_scalar(p, k)
         /\ ptRhs' = k
         /\ ptOut' = point_div_assign_scalar(point_mul_assign_scalar(p, k), k)
    /\ op' = Op("point_div_assign_scalar", <<>>)
    /\ UNCHANGED <<chanVars, wheelVars, lfoVars, soundVars, prodVars, rendVars, synthVars, fxVars, plugVars, envVars>>

NextPoint ==
    \/ PointAdd
    \/ PointSub
    \/ PointNeg
    \/ PointMul
    \/ PointAddScalar
    \/ PointSubScalar
    \/ PointMulScalar
    \/ PointMulAssignScalar
    \/ PointDivAssignScalar

-----------------------------------------------------------------------------
(* The phase accumulators of LfoState and EffectParameter (lfo.rs, parameter.rs) *)

\* rate / sample_rate of an LFO, in phase steps: up to two cycles per sample
PhaseIncs == 0..(2 * PhaseSteps)

\* the periodic LFO types
PeriodicLfoTypes == {"Sine", "Square", "Seesaw", "Triangle", "Sawtooth", "ReverseSawtooth"}

\* LfoState::new(lfo_type, rate)
LfoNew ==
    /\ events < MaxEvents
    /\ events' = events + 1
    /\ \E t \in PeriodicLfoTypes, inc \in PhaseIncs :
         /\ lfoRate' = inc
         /\ lfoPhase' = 0
         /\ op' = Op("lfo_new", <<t>>)
    /\ UNCHANGED <<chanVars, wheelVars, paramPhase, paramRate, pointVars, soundVars, prodVars, rendVars,
                   voices, adsr, midi_enabled, sample_rate, out, hung, panicked, outPre,
                   numSamples, rendered, fxVars, plugVars, envVars>>

\* LfoState::next_value with a periodic type and sample_rate > 0
LfoNextValue ==
    /\ events < MaxEvents
    /\ events' = events + 1
    /\ lfoPhase' = advance_phase(lfoPhase, lfoRate)
    /\ op' = Op("lfo_next_value", <<lfoPhase>>)
    /\ UNCHANGED <<chanVars, wheelVars, lfoRate, paramPhase, paramRate, pointVars, soundVars, prodVars,
                   rendVars, voices, adsr, midi_enabled, sample_rate, out, hung, panicked,
                   outPre, numSamples, rendered, fxVars, plugVars, envVars>>

\* EffectParameter::with_lfo_default(lfo_type, rate)
WithLfoDefault ==
    /\ events < MaxEvents
    /\ events' = events + 1
    /\ \E t \in PeriodicLfoTypes, inc \in PhaseIncs :
         /\ paramRate' = inc
         /\ op' = Op("with_lfo_default", <<t>>)
    /\ UNCHANGED <<chanVars, wheelVars, lfoPhase, lfoRate, paramPhase, pointVars, soundVars, prodVars,
                   rendVars, voices, adsr, midi_enabled, sample_rate, out, hung, panicked,
                   outPre, numSamples, rendered, fxVars, plugVars, envVars>>

\* animate_parameter on a block of one sample, for a periodic type and
\* sample_rate > 0: the phase ramp (parameter.rs:276-282)
AnimatePhase ==
    /\ events < MaxEvents
    /\ events' = events + 1
    /\ paramPhase' = advance_phase(paramPhase, paramRate)
    /\ op' = Op("animate_phase", <<paramPhase>>)
    /\ UNCHANGED <<chanVars, wheelVars, lfoPhase, lfoRate, paramRate, pointVars, soundVars, prodVars,
                   rendVars, voices, adsr, midi_enabled, sample_rate, out, hung, panicked,
                   outPre, numSamples, rendered, fxVars, plugVars, envVars>>

NextLfo ==
    \/ LfoNew
    \/ LfoNextValue
    \/ WithLfoDefault
    \/ AnimatePhase

-----------------------------------------------------------------------------
(* Specifications *)

\* the envelope of Synthesizer::new: Env::adsr with times in samples
DefaultAdsr == EnvAdsr(1, 1, 1, 2, 2)

\* ShapeSound::new, FrameProducer::start, ShapeRenderer::new, Synthesizer::new:
\* everything but the frame source and the synthesizer's settings
InitCommon ==
    /\ chan = <<>>
    /\ rxAlive = TRUE
    /\ current_frame = <<>>
    /\ frame_length = 0
    /\ lastRecv = SeqMod - 1
    /\ running = TRUE
    /\ thread = "some"
    /\ prodPc = "check"
    /\ pending = [id |-> 0, shapes |-> <<>>]
    /\ exitReason = "none"
    /\ stopPc = "idle"
    /\ nextId = 0
    /\ rend = NewRenderer
    /\ rlen = 0
    /\ rpc = "idle"
    /\ rperiod = MaxPeriod
    /\ rsince = 0
    /\ rlast = 0
    /\ voices = [k \in Slots |-> NewVoice]
    /\ out = [i \in 1..BufLen |-> Zero]
    /\ hung = FALSE
    /\ panicked = FALSE
    /\ outPre = [i \in 1..BufLen |-> Zero]
    /\ numSamples = 0
    /\ rendered = [k \in Slots |-> <<>>]
    /\ events = 0
    /\ heap = [a \in Addrs |-> NoObject]
    /\ effect_template = <<>>
    /\ effects = [k \in Slots |-> <<>>]
    /\ lookupEnv = EnvAdsr(1, 1, 1, 2, 2)
    /\ lookupTime = 0
    /\ lookupValue = lookup(lookupEnv, 0)
    /\ lastWheel = PitchCentre
    /\ lfoPhase = 0
    /\ lfoRate = 1
    /\ paramPhase = 0
    /\ paramRate = 1
    /\ ptIn = PointNew(0, 0, 0)
    /\ ptRhs = <<>>
    /\ ptOut = PointNew(0, 0, 0)
    /\ audioPc = "idle"
    /\ editorPc = "idle"
    /\ command_rx = 0
    /\ effects_changed = FALSE
    /\ effect_snapshots = "free"
    /\ vis_buffer = "free"
    /\ command_tx = 0
    /\ command_queue = <<>>
    /\ editor_tx = <<>>
    /\ accepted = <<>>
    /\ received = <<>>
    /\ op = Op("init", <<>>)

Init ==
    /\ InitCommon
    /\ adsr = DefaultAdsr
    /\ source = StaticFrameSource(FrameLine)
    /\ midi_enabled = TRUE
    /\ sample_rate = SampleRateHz

\* the synthesizer: Synthesizer::new(num_voices, sample_rate), then set_midi_enabled
InitSynth ==
    /\ InitCommon
    /\ adsr = DefaultAdsr
    /\ source = StaticFrameSource(FrameLine)
    /\ \E c \in SynthConfigs : midi_enabled = c[1] /\ sample_rate = c[2]

NextSynth ==
    \/ NoteOn
    \/ NoteOff
    \/ PitchWheel
    \/ SetAdsr
    \/ RenderNextBlock
    \/ SendFrame

SpecSynth == InitSynth /\ [][NextSynth]_vars

\* the frame channel with a FrameProducer thread, a polling consumer and stop()
InitProducer ==
    /\ InitCommon
    /\ adsr = DefaultAdsr
    /\ source \in Sources
    /\ midi_enabled = TRUE
    /\ sample_rate = SampleRateHz

NextProducer ==
    \/ ProducerCheck
    \/ ProducerNextFrame
    \/ ProducerSend
    \/ UpdateFrame
    \/ DropSound
    \/ StopCall
    \/ StopJoin

SpecProducer == InitProducer /\ [][NextProducer]_vars

\* The producer thread is scheduled whenever it can take a step, and join()
\* returns once the thread has finished.  Nothing obliges the consumer to poll.
FairSpecProducer ==
    /\ SpecProducer
    /\ WF_vars(ProducerCheck)
    /\ WF_vars(ProducerNextFrame)
    /\ WF_vars(ProducerSend)
    /\ WF_vars(StopJoin)

\* the plugin's effect template and the voices' effect chains
NextEffects ==
    \/ ProcessCommand
    \/ ApplyEffects

SpecEffects == Init /\ [][NextEffects]_vars

\* the audio thread in process() next to the editor thread
SpecPlugin == Init /\ [][NextPlugin]_vars

\* the host calling editor(), initialize() and process() in any order while
\* the editor's widgets send commands
SpecChannel == Init /\ [][NextChannel]_vars

\* envelopes the plugin hands to set_adsr before any note: the default and a
\* percussive one that ends one sample after its note-off
VoiceEnvs == {DefaultAdsr, EnvPerc(1, 0, 2)}

\* Synthesizer::new, set_midi_enabled and set_adsr
InitVoice ==
    /\ InitCommon
    /\ source = StaticFrameSource(FrameLine)
    /\ midi_enabled \in BOOLEAN
    /\ sample_rate = SampleRateHz
    /\ adsr \in VoiceEnvs

\* a Synthesizer the host renders block after block, without end
HostNoteOn ==
    /\ events < HostEvents
    /\ NoteOn

HostSendFrame ==
    /\ events < HostEvents
    /\ SendFrame

NextHost ==
    \/ HostNoteOn
    \/ HostSendFrame
    \/ RenderNextBlockSteady

SpecHost == Init /\ [][NextHost]_vars

\* the host calls process() for every audio buffer, so a render of at least
\* one sample that can happen does happen
FairSpecHost == SpecHost /\ WF_vars(RenderNextBlockSteady /\ op'.arg[1] > 0)

\* a Synthesizer whose voices carry the effect chains process() gives them
NextVoice ==
    \/ ProcessCommand
    \/ NoteOn
    \/ NoteOff
    \/ RenderNextBlock

SpecVoice == InitVoice /\ [][NextVoice]_vars

\* LFO phase accumulators
SpecLfo == Init /\ [][NextLfo]_vars

\* Point expressions
SpecPoint == Init /\ [][NextPoint]_vars

\* an Env and its lookups
NextLookup ==
    \/ EnvNew
    \/ EnvLookup

SpecLookup == Init /\ [][NextLookup]_vars

\* a ShapeRenderer driven by next_vector()
NextSelfDriven ==
    \/ SDSetShapes
    \/ SDSetFrequency
    \/ SDNextVector

SpecSelfDriven == Init /\ [][NextSelfDriven]_vars

\* the ShapeRenderer alone, its skip loop taken one iteration at a time
NextRenderer ==
    \/ RSetShapes
    \/ RNextVectorWithIncrement
    \/ RSkipStep
    \/ RSkipExit
    \/ RFrameSwap

SpecRenderer == Init /\ [][NextRenderer]_vars

\* a thread inside increment_with keeps running
FairSpecRenderer ==
    /\ SpecRenderer
    /\ WF_vars(RSkipStep)
    /\ WF_vars(RSkipExit)

-----------------------------------------------------------------------------
(* Properties *)

\* the sum of what the voices added to output sample i in the last block
RECURSIVE contributions(_, _)
contributions(k, i) ==
    IF k = 0 THEN Zero
    ELSE PAdd(contributions(k - 1, i),
              IF i <= Len(rendered[k]) THEN rendered[k][i] ELSE Zero)

\* C1: the number of active voices never exceeds the number of slots, the
\* slots stay the same, and a NoteOn handled while every voice is active
\* leaves every voice active: one voice is restarted with the new note and
\* the others are as they were.
C1_ActiveCountBounded ==
    /\ [](DOMAIN voices = Slots /\ active_voice_count(voices) <= NumVoices)
    /\ [][(op'.name = "note_on" /\ active_voice_count(voices) = NumVoices)
            => /\ active_voice_count(voices') = NumVoices
               /\ Cardinality({k \in Slots : voices'[k] # voices[k]}) <= 1
               /\ \E k \in Slots : /\ voices'[k].note = op'.arg[1]
                                   /\ voices'[k].time = 0
                                   /\ voices'[k].waiting_for_release]_vars

\* a NoteOn has just stolen a voice and all voices are active
C1_Witness ==
    /\ op.name = "note_on"
    /\ op.arg[3] = 0
    /\ active_voice_count(voices) = NumVoices

\* C2: with a positive sample rate, a voice whose note has been released and
\* that has since rendered at least end_time samples is idle; and a block
\* rendered while no voice is active is all zeros.
C2_VoiceReturnsToIdle ==
    /\ [](\A k \in Slots :
            (sample_rate > 0 /\ voices[k].off /\ voices[k].released >= voices[k].end_time)
                => ~is_active(voices[k]))
    /\ [][(op'.name = "render_next_block" /\ ~hung' /\ active_voice_count(voices) = 0)
            => \A i \in 1..numSamples' : out'[i] = Zero]_vars

\* a released voice has played out its envelope and gone idle, and the block
\* rendered into dirty buffers after that is silent
C2_Witness ==
    /\ op.name = "render_next_block"
    /\ ~hung
    /\ ~panicked
    /\ sample_rate > 0
    /\ active_voice_count(voices) = 0
    /\ \E k \in Slots : voices[k].off /\ voices[k].released >= voices[k].end_time
    /\ \A k \in Slots : rendered[k] = <<>>
    /\ numSamples = BufLen
    /\ \A i \in 1..BufLen : outPre[i] # Zero /\ out[i] = Zero

\* C3: after render_next_block the first n output samples are the sum of what
\* the voices added, whatever the buffers held before, zero when no voice
\* added anything, and the samples from n on are what they were.
C3_RenderOverwrites ==
    \A i \in 1..BufLen :
        IF i <= numSamples
        THEN /\ out[i] = contributions(NumVoices, i)
             /\ (\A k \in Slots : rendered[k] = <<>>) => out[i] = Zero
        ELSE out[i] = outPre[i]

\* every voice, drawing a frame, has added a non-zero point to the one sample
\* rendered into a dirty buffer
C3_Witness ==
    /\ op.name = "render_next_block"
    /\ numSamples = 1
    /\ outPre[1] # Zero
    /\ \A k \in Slots : /\ voices[k].renderer.shapes # <<>>
                         /\ rendered[k] # <<>>
                         /\ rendered[k][1][1] # 0
    /\ out[1] # Zero
    /\ out[BufLen] = outPre[BufLen]

\* C4: a thread that has entered the skip loop of increment_with leaves it.
C4_SkipLoopTerminates == (rpc = "loop") ~> (rpc = "idle")

\* C5: update_frame never waits; with a frame pending it takes the oldest one,
\* makes it the current frame and caches its total length; with none pending
\* it changes nothing.
C5_UpdateFrame ==
    /\ [](rxAlive => ENABLED UpdateFrame)
    /\ [][op'.name = "update_frame"
            => IF chan # <<>>
               THEN /\ chan' = Tail(chan)
                    /\ current_frame' = Head(chan).shapes
                    /\ frame_length' = total_length(Head(chan).shapes)
               ELSE UNCHANGED <<chan, current_frame, frame_length>>]_vars

\* a poll has installed the mixed frame while another frame is still pending
C5_Witness ==
    /\ op.name = "update_frame"
    /\ current_frame = FrameMixed
    /\ frame_length = 3
    /\ chan # <<>>

\* frames are in the channel in the order they were produced, none lost or repeated
InOrder ==
    /\ \A i \in 1..Len(chan) : chan[i].id = (lastRecv + i) % SeqMod
    /\ prodPc = "send" => pending.id = (lastRecv + Len(chan) + 1) % SeqMod
    /\ nextId = (lastRecv + Len(chan) + (IF prodPc = "send" THEN 2 ELSE 1)) % SeqMod

\* C6: the channel never holds more than Capacity frames; a send goes through
\* exactly when there is room; the consumer is never blocked; frames arrive in
\* the order sent, none lost or duplicated.
C6_Backpressure ==
    /\ Len(chan) <= Capacity
    /\ rxAlive => /\ ENABLED UpdateFrame
                  /\ prodPc = "send" => (ENABLED ProducerSend <=> Len(chan) < Capacity)
                  /\ InOrder

\* the producer waits in send on a full channel after a frame has been consumed
C6_Witness == rxAlive /\ prodPc = "send" /\ Len(chan) = Capacity /\ lastRecv = 1

\* C7: a stop() that has reached join() returns.
C7_StopReturns == (stopPc = "joining") ~> (stopPc = "returned")

\* C8: once the ShapeSound is dropped the producer thread ends, and a stop()
\* waiting in join() returns.
C8_DisconnectEndsThread ==
    /\ (~rxAlive) ~> (prodPc = "done")
    /\ (~rxAlive /\ stopPc = "joining") ~> (stopPc = "returned")

\* the thread ended on a failed send and stop() has returned
C8_Witness == ~rxAlive /\ exitReason = "disconnected" /\ stopPc = "returned"

\* C9: is_running() is false once the producer thread has ended.
C9_IsRunningReflectsThread == prodPc = "done" => ~is_running

C11_StealsOldest ==
    [][(op'.name = "note_on" /\ op'.arg[3] = 0)
        => \A k \in Slots :
             voices'[k].started = events'
                 => \A j \in Slots :
                      is_active(voices[j]) => voices[k].started <= voices[j].started]_vars

\* C12: a NoteOff clears waiting_for_release on every active voice playing the
\* note and changes nothing else of it; those voices stay active; every other
\* voice, and the sound, are as they were.
C12_NoteOffReleasesMatching ==
    [][op'.name = "note_off"
        => /\ \A k \in Slots :
                IF is_active(voices[k]) /\ voices[k].note = op'.arg[1]
                THEN /\ is_active(voices'[k])
                     /\ ~voices'[k].waiting_for_release
                     /\ voices'[k] = [voices[k] EXCEPT
                                        !.waiting_for_release = FALSE,
                                        !.off = voices'[k].off,
                                        !.released = voices'[k].released]
                ELSE voices'[k] = voices[k]
           /\ UNCHANGED <<soundVars, adsr, out>>]_vars

\* one NoteOff has released the same note on every voice, each part-way
\* through its attack and still active
C12_Witness ==
    /\ op.name = "note_off"
    /\ \A k \in Slots : /\ is_active(voices[k])
                         /\ voices[k].note = op.arg[1]
                         /\ ~voices[k].waiting_for_release
                         /\ voices[k].released = 0
                         /\ voices[k].time > 0

\* what set_effect_template must carry over from a template element
chain_settings(h, chain) ==
    [i \in 1..Len(chain) |->
        [id |-> h[chain[i]].id, enabled |-> h[chain[i]].enabled,
         parameters |-> [p \in 1..Len(h[chain[i]].parameters) |->
                            settings(h[chain[i]].parameters[p])]]]

\* the animation state of an effect of a voice
animation_state(e) ==
    [current_values |-> e.current_values, animated_values |-> e.animated_values,
     phase |-> [p \in 1..Len(e.parameters) |-> e.parameters[p].phase],
     rng_state |-> [p \in 1..Len(e.parameters) |-> e.parameters[p].rng_state]]

\* C13: after set_effect_template every voice's chain has the length, order,
\* ids, enabled flags and parameter settings of the template, and a voice that
\* renders changes no object of the template or of another voice.
C13_IndependentClones ==
    [][/\ (op'.name = "process" /\ op'.arg.changed)
            => \A k \in Slots :
                 chain_settings(heap', effects'[k])
                     = chain_settings(heap', effect_template')
       /\ op'.name = "apply_effects"
            => /\ \A i \in 1..Len(effect_template) :
                     heap'[effect_template[i]] = heap[effect_template[i]]
               /\ \A j \in Slots \ {op'.arg[1]} : \A i \in 1..Len(effects[j]) :
                     heap'[effects[j][i]] = heap[effects[j][i]]]_vars

C13_Witness ==
    /\ op.name = "apply_effects"
    /\ Len(effect_template) = MaxChain
    /\ \E k \in Slots, j \in Slots :
         /\ heap[effects[k][1]].application
                # heap[effect_template[1]].application
         /\ animation_state(heap[effects[k][1]])
                # animation_state(heap[effects[j][1]])
         /\ animation_state(heap[effects[k][1]])
                # animation_state(heap[effect_template[1]])

\* C14: a parameter-value edit synced with set_effect_template leaves the
\* animation state of the voices' other effects as it was.
C14_EditKeepsAnimationState ==
    [][(op'.name = "process" /\ op'.arg.changed /\ op'.arg.cmd.name = "SetParamValue")
        => \A k \in Slots : \A i \in 1..Len(effects[k]) :
             i # op'.arg.cmd.effect_idx
                 => animation_state(heap'[effects'[k][i]])
                        = animation_state(heap[effects[k][i]])]_vars

\* C15: the audio thread never waits for another thread: it is never at a
\* lock() whose mutex the editor holds.
C15_AudioNeverWaits ==
    /\ ~(audioPc = "lock_snapshots" /\ effect_snapshots = "editor")
    /\ ~(audioPc = "lock_vis" /\ vis_buffer = "editor")

\* C16: a voice's renderer gets new shapes only in start_note, or in
\* render_next_block right after a sample that left frame_drawn at or past a
\* positive frame length; NoteOff, PitchWheel, set_adsr and a frame sent into
\* the sound leave every renderer as it was, and NoteOn those of the other voices.
C16_SwapOnlyAtWrap ==
    [][\A k \in Slots :
         /\ op'.name \notin {"note_on", "render_next_block"}
              => voices'[k].renderer = voices[k].renderer
         /\ (op'.name = "note_on" /\ voices'[k].started # events')
              => voices'[k].renderer = voices[k].renderer
         /\ op'.name = "render_next_block"
              => /\ voices'[k].renderer.shapes # voices[k].renderer.shapes
                      => voices'[k].swaps # <<>>
                 /\ \A i \in 1..Len(voices'[k].swaps) :
                      /\ voices'[k].swaps[i][1] >= voices'[k].swaps[i][2]
                      /\ voices'[k].swaps[i][2] > 0]_vars

C16_Witness ==
    /\ op.name = "render_next_block"
    /\ \E k \in Slots : /\ is_active(voices[k])
                          /\ voices[k].swaps # <<>>
                          /\ voices[k].renderer.shapes = FramePoint

\* C17: whenever the renderer holds a non-empty frame and is between two
\* operations, current_shape is an index of the frame and
\* 0 <= shape_drawn <= length(current_shape).
C17_ShapeCursorInRange ==
    (rpc = "idle" /\ rend.shapes # <<>>)
        => /\ rend.current_shape < Len(rend.shapes)
           /\ 0 <= rend.shape_drawn
           /\ rend.shape_drawn <= current_length(rend)

\* C18: after every completed sample step (a swap that frame_complete() calls
\* for included) the frame cursor is inside the frame:
\* 0 <= frame_drawn <= shapes_length, for the self-driven renderer and for the
\* renderer a voice drives.
C18_FrameCursorInRange ==
    (rpc = "idle" /\ ~frame_complete(rend))
        => /\ 0 <= rend.frame_drawn
           /\ rend.frame_drawn <= rend.shapes_length

C20_LookupEnds ==
    /\ lookupTime = 0 => lookupValue = lookupEnv.levels[1]
    /\ lookupTime >= sum_times(lookupEnv.times, Len(lookupEnv.times))
         => lookupValue = lookupEnv.levels[Len(lookupEnv.levels)]

\* C21: Point + Point, Point - Point, -Point and Point * Point act on all six
\* channels; Point + s, Point - s and Point * s change x, y, z and keep r, g, b;
\* Point *= s and Point /= s act on all six channels.
C21_PointChannels ==
    \A i \in 1..6 :
        /\ op.name = "point_add" => ptOut[i] = ptIn[i] + ptRhs[i]
        /\ op.name = "point_sub" => ptOut[i] = ptIn[i] - ptRhs[i]
        /\ op.name = "point_neg" => ptOut[i] = -ptIn[i]
        /\ op.name = "point_mul" => ptOut[i] = ptIn[i] * ptRhs[i]
        /\ op.name = "point_add_scalar"
             => ptOut[i] = IF i <= 3 THEN ptIn[i] + ptRhs ELSE ptIn[i]
        /\ op.name = "point_sub_scalar"
             => ptOut[i] = IF i <= 3 THEN ptIn[i] - ptRhs ELSE ptIn[i]
        /\ op.name = "point_mul_scalar"
             => ptOut[i] = IF i <= 3 THEN ptIn[i] * ptRhs ELSE ptIn[i]
        /\ op.name = "point_mul_assign_scalar" => ptOut[i] = ptIn[i] * ptRhs
        /\ op.name = "point_div_assign_scalar" => ptOut[i] * ptRhs = ptIn[i]

\* C22: a render_next_block that returns leaves every voice that was Active and
\* waiting for its release Active and still waiting, with an elapsed time t
\* such that 0 <= t <= release_time, release_time being the sum of the stage
\* times before the release node of the voice's envelope.
C22_HeldVoiceStaysActive ==
    [][(op'.name = "render_next_block" /\ ~hung')
         => \A k \in Slots :
              (voices[k].active /\ voices[k].waiting_for_release)
                => /\ voices'[k].active
                   /\ voices'[k].waiting_for_release
                   /\ voices'[k].release_time
                        = sum_times(voices[k].adsr.times, voices[k].adsr.release_node)
                   /\ 0 <= voices'[k].time
                   /\ voices'[k].time <= voices'[k].release_time]_vars

\* a held voice has been rendered up to its release time, which is not 0
C22_Witness ==
    /\ op.name = "render_next_block"
    /\ numSamples > 0
    /\ \E k \in Slots :
         /\ voices[k].active
         /\ voices[k].waiting_for_release
         /\ voices[k].release_time > 0
         /\ voices[k].time = voices[k].release_time

\* C23: when a render_next_block stops a releasing voice at sample i of the
\* block, the voice adds zero to the output samples i+1 .. n-1 of that block,
\* whatever its effect chain and with MIDI mode on or off.
C23_SilentAfterEnd ==
    [][(op'.name = "render_next_block" /\ ~hung' /\ ~panicked')
         => \A k \in Slots :
              (voices[k].active /\ ~voices'[k].active)
                => \A j \in 1..numSamples' :
                     j > voices'[k].ended_at + 1 => rendered'[k][j] = Zero]_vars

\* the effects of a chain that are enabled, in chain order
enabled_effects(h, chain) == SelectSeq(chain, LAMBDA a : h[a].enabled)

\* C24: when a voice runs its working buffers through its chain, the output is
\* what the enabled effects produce when each one is fed the output of the
\* enabled effect before it, in chain order, and a disabled effect keeps all
\* of its state (parameters with phase and PRNG state, current and animated
\* values, the state of its application).
C24_ChainOrderAndSkip ==
    [][op'.name = "apply_effects"
         => LET chain == effects[op'.arg[1]]
                n == op'.arg[2]
                input == op'.arg[3]
                output == op'.arg[4]
                en == enabled_effects(heap, chain)
            IN  /\ \A i \in 1..Len(chain) :
                     ~heap[chain[i]].enabled => heap'[chain[i]] = heap[chain[i]]
                /\ Len(en) = 0 => output = input
                /\ Len(en) = 1 => output = apply_effect(heap[en[1]], input, n).pts
                /\ Len(en) = 2
                     => output = apply_effect(heap[en[2]],
                                              apply_effect(heap[en[1]], input, n).pts,
                                              n).pts]_vars

\* a chain of two different enabled effects, both with a non-zero animated
\* value, has changed the points of a block
C24_Witness ==
    /\ op.name = "apply_effects"
    /\ LET chain == effects[op.arg[1]]
       IN  /\ Len(chain) = 2
           /\ heap[chain[1]].enabled /\ heap[chain[2]].enabled
           /\ heap[chain[1]].id # heap[chain[2]].id
           /\ heap[chain[1]].animated_values[1] # 0
           /\ heap[chain[2]].animated_values[1] # 0
           /\ op.arg[4] # op.arg[3]

\* C25: for every sample of a voice's block, the length increment passed to
\* the renderer is max(floor, L * f / sample_rate), f being the voice's
\* pitch-bend-adjusted frequency and L the total length of the frame the
\* renderer holds when the sample is produced, also after a frame swap
\* earlier in the block.
C25_IncrementOfHeldFrame ==
    [][(op'.name = "render_next_block" /\ ~hung' /\ ~panicked' /\ sample_rate > 0)
         => \A k \in Slots :
              voices[k].active
                => \A i \in 1..Len(voices'[k].incs) :
                     voices'[k].incs[i][1]
                       = Max((voices'[k].incs[i][2] * voices'[k].actual_frequency)
                               \div (sample_rate * PitchDenom),
                             MinLengthIncrement)]_vars

\* C26: a periodic LFO whose phase is in [0, 1) has, after one sample's advance
\* by rate / sample_rate (rate >= 0, sample_rate > 0), a phase in [0, 1) again,
\* in LfoState::next_value and in animate_parameter.
C26_PhaseInUnitInterval ==
    [][/\ (op'.name = "lfo_next_value" /\ 0 <= lfoPhase /\ lfoPhase < PhaseSteps)
            => (0 <= lfoPhase' /\ lfoPhase' < PhaseSteps)
       /\ (op'.name = "animate_phase" /\ 0 <= paramPhase /\ paramPhase < PhaseSteps)
            => (0 <= paramPhase' /\ paramPhase' < PhaseSteps)]_vars

\* C27: a voice that is Active with an empty renderer while the sound holds a
\* non-empty frame comes to hold a frame in its renderer (or stops being
\* Active) as the host keeps rendering.
C27_AdoptsFrame ==
    \A k \in Slots :
        (voices[k].active /\ voices[k].renderer.shapes = <<>> /\ current_frame # <<>>
           /\ ~hung)
          ~> (~voices[k].active \/ voices[k].renderer.shapes # <<>> \/ hung)

\* C28: all Active voices have the pitch-bend multiplier of the most recent
\* PitchWheel event, 1 + (v - 8192) / 65536 (1 if there was none), voices
\* started after that event included.
C28_PitchBendConsistent ==
    \A k \in Slots :
        voices[k].active
          => voices[k].pitch_wheel_adjustment = PitchDenom + (lastWheel - PitchCentre)

\* C29: render_next_block with num_samples = 0, on a synthesizer with an Active
\* voice whose chain holds an enabled effect with at least one parameter,
\* returns without fault, writes no output sample and leaves Active voices
\* Active.
C29_EmptyBlockIsNoOp ==
    [][(/\ op'.name = "render_next_block"
        /\ op'.arg[1] = 0
        /\ \E k \in Slots :
             /\ voices[k].active
             /\ \E i \in 1..Len(effects[k]) :
                  /\ heap[effects[k][i]].enabled
                  /\ Len(heap[effects[k][i]].parameters) > 0)
         => /\ ~panicked'
            /\ out' = outPre'
            /\ \A k \in Slots : voices[k].active => voices'[k].active]_vars

\* C30: every UiCommand the editor's sender accepted is received by the drain
\* loop of a later process(), in send order, whatever the order of editor(),
\* initialize() and process(): when a process() call returns, the drain loop
\* has received exactly the accepted commands, in the order they were sent.
C30_AcceptedCommandsReceived ==
    [][op'.name = "process" => received' = accepted']_vars

=============================================================================
